---- MODULE Spec2Model ----
(***************************************************************************)
(* A model of the zerg logging library: the bounded lock-free MPMC ring    *)
(* (LockFreeQueue), and the asynchronous log engine built on it (Logger,   *)
(* syncLogs, waitUntilEmpty).  Every atomic load, store and compare-       *)
(* exchange of the ring is one step of the thread that executes it.        *)
(***************************************************************************)
EXTENDS Integers, Sequences, FiniteSets, Bags, TLC

(***************************************************************************)
(* Bounds of the model.                                                    *)
(***************************************************************************)
NumThreads == 2        \* threads that call the ring concurrently
MaxTickets == 3        \* producer tickets handed out in one run
MaxReqCapacity == 3    \* largest capacity requested from the constructor
MaxItem == 2           \* sequential runs draw items from 1..MaxItem
NumItems == 5          \* N of the single-producer/single-consumer run
MaxSeqTickets == 5     \* producer tickets handed out in a sequential run
MaxSmallRequest == 40  \* the constructor run tries every capacity 0..MaxSmallRequest
NumAppThreads == 2     \* threads that call log, sync and waitUntilEmpty
MaxRecords == 2        \* log calls in one run of the logger
MaxRecordSize == 2     \* a rendered record takes 1..MaxRecordSize bytes
MaxFileSize == 2       \* the template parameter MaxFileSize

MaxLevelSets == 1      \* setLogLevel calls in one run of the logger
MaxLineLen == 3        \* bytes of a rendered line
MaxSlotSizeLog2 == 7    \* the constructor run tries slots of 2^6..2^MaxSlotSizeLog2 bytes
NumRegThreads == 2     \* threads that use the registry of Loggers

Threads == 1..NumThreads
Items == 1..MaxItem
NoItem == 0            \* raw slot storage that holds no constructed object

(***************************************************************************)
(* size_t arithmetic.  A size_t is a word of WordBits bits, given as the   *)
(* set of the positions of its 1 bits, bit 0 the least significant one;    *)
(* the operators below are the machine operations nextPowerOf2 uses, with  *)
(* wrap-around at 2^WordBits.                                              *)
(***************************************************************************)
WordBits == 64
SHIFT_1 == 1
SHIFT_2 == 2
SHIFT_4 == 4
SHIFT_8 == 8
SHIFT_16 == 16
SHIFT_32 == 32

Bits == 0..(WordBits - 1)

\* the word of the natural number n, whose lowest bit goes to position i
RECURSIVE FromNatAt(_, _)
FromNatAt(n, i) ==
    IF n = 0 THEN {}
    ELSE (IF n % 2 = 1 THEN {i} ELSE {}) \cup FromNatAt(n \div 2, i + 1)

FromNat(n) == FromNatAt(n, 0)

\* the natural number of a word that is small enough to be one
RECURSIVE ToNat(_)
ToNat(v) ==
    IF v = {} THEN 0
    ELSE LET i == CHOOSE x \in v : TRUE IN 2 ^ i + ToNat(v \ {i})

\* v - 1 (mod 2^WordBits): the lowest 1 bit goes to 0 and the 0 bits below it to 1
Dec(v) ==
    IF v = {} THEN Bits
    ELSE LET low == CHOOSE i \in v : \A j \in v : i <= j
         IN  (v \ {low}) \cup {i \in Bits : i < low}

\* v + 1 (mod 2^WordBits): the lowest 0 bit goes to 1 and the 1 bits below it to 0
Inc(v) ==
    IF v = Bits THEN {}
    ELSE LET low == CHOOSE i \in Bits \ v : \A j \in Bits \ v : i <= j
         IN  {i \in v : i > low} \cup {low}

\* v >> k
Shr(v, k) == {i - k : i \in {j \in v : j >= k}}

\* a | b
BitOr(a, b) == a \cup b

\* LockFreeQueue::nextPowerOf2
nextPowerOf2(v) ==
    LET v0 == Dec(v)
        v1 == BitOr(v0, Shr(v0, SHIFT_1))
        v2 == BitOr(v1, Shr(v1, SHIFT_2))
        v3 == BitOr(v2, Shr(v2, SHIFT_4))
        v4 == BitOr(v3, Shr(v3, SHIFT_8))
        v5 == BitOr(v4, Shr(v4, SHIFT_16))
        v6 == BitOr(v5, Shr(v5, SHIFT_32))
    IN  Inc(v6)

\* bitwise AND of two small naturals (head & _mask)
RECURSIVE BitAnd(_, _)
BitAnd(a, b) ==
    IF a = 0 \/ b = 0 THEN 0
    ELSE (a % 2) * (b % 2) + 2 * BitAnd(a \div 2, b \div 2)

(***************************************************************************)
(* State.                                                                  *)
(***************************************************************************)
VARIABLES
    capacity,   \* LockFreeQueue::_capacity
    mask,       \* LockFreeQueue::_mask
    head,       \* _head.value: next producer ticket
    tail,       \* _tail.value: next consumer ticket
    slots,      \* _slots: index -> [turn, val]
    pc,         \* per thread: position inside enqueue_impl / dequeue
    lhead,      \* per thread: the local `head` of enqueue_impl
    ltail,      \* per thread: the local `tail` of dequeue
    arg,        \* per thread: the item passed to enqueue
    out,        \* per thread: the caller's variable passed to dequeue
    res,        \* per thread: the value the call returns
    enqWon,     \* history: <<ticket, item>> of every enqueue that won its CAS
    deqWon,     \* history: ticket of every dequeue that won its CAS
    deqRet,     \* history: the bag of <<ticket, item>> of the dequeues that returned true
    consumed,   \* single-consumer run: the items in the order the consumer received them
    pre,        \* sequential runs: the call in progress and the state it started in
    ctorArg,    \* constructor run: the requested capacity, a size_t
    ctorCap,    \* constructor run: the resulting _capacity, a size_t
    ctorMask,   \* constructor run: the resulting _mask, a size_t
    ctorThrew,  \* constructor run: the exception that left the constructor, or "none"
    slotSizeLog2, \* constructor run: log2 of sizeof(Slot) of the instantiation
    at,         \* per thread: its position in log, sync, waitUntilEmpty, ~Logger or processLogQueue
    stage,      \* per application thread: what its last calls were
    entry,      \* per application thread: the record of the log call in progress
    processed,  \* per application thread: the local `processed` of syncLogs
    batch,      \* processLogQueue's local `batch`
    stopLogging,    \* Logger::_stop_logging
    fileMutex,      \* Logger::_file_mutex: its holder, or NoThread
    currentSize,    \* Logger::_current_size
    written,        \* what the backend was given to write, in order: a record for its text, or Newline
    rotations,      \* history: for every rotateLogFile, what had been written when it ran
    flushedLen,     \* how many of them have left the backend's buffer for the file
    recSize,        \* record -> its rendered size; its length counts the log calls
    recLevel,       \* record -> the level its log call was given
    benchmarkMode,  \* whether the build defines BENCHMARK_MODE
    legacyLogger,   \* whether the Logger is the class that logger.hpp defines inline
    openFailed,     \* whether the open of the log file fails (the stream is then in a failed state)
    raised,         \* history: the application threads out of whose log call an exception propagated
    backend,        \* Logger::_backend: the sinks it has pointed to, the last one being the current
    logLevel,       \* Logger::_log_level: the values it has held; every thread can read the last one
    levelBuf,       \* per application thread: its relaxed store to _log_level that is not visible to the others yet
    logOf,      \* history, per application thread: its records whose log call returned after a successful enqueue
    syncPre,    \* history, per application thread: the records logged when its last sync call started
    drained,    \* history: the records the drain thread obtained from dequeue
    rendered,   \* processLogEntry run: the line as fmt::format_to rendered it, a sequence of bytes
    buffer,     \* processLogEntry run: log_entry_buffer
    lineOut,    \* processLogEntry run: the bytes given to the backend
    sanAt,      \* processLogEntry run: its position
    instances,      \* getFileLogger's static map: full path -> engine
    resetInstances, \* resetFileLogger's static map
    mtx,            \* getFileLogger's static mutex: its holder, or NoThread
    regAt,      \* per thread: its position in getFileLogger
    regName,    \* per thread: the filename argument of its registry call
    regRet,     \* per thread: its last registry call that returned, with what it returned
    engines,    \* history: the full path of every Logger that make_shared constructed, in order
    logFilePath,    \* getLogFilePath's static string
    regPath,    \* per thread: the local fullPath of its registry call
    setbufActs, \* file sinks run: whether pubsetbuf on the open stream takes effect in this build
    fileBuffer, \* file sinks run: buffer -> its bytes; buffer 0 is the static fileBuffer
    pending,    \* file sinks run: sink -> how many bytes it holds in its buffer
    delivered   \* file sinks run: sink -> the bytes that reached its file

qvars == <<capacity, mask, head, tail, slots>>
tvars == <<pc, lhead, ltail, arg, out>>
hvars == <<enqWon, deqWon, deqRet>>
cvars == <<ctorArg, ctorCap, ctorMask, ctorThrew, slotSizeLog2>>
svars == <<rendered, buffer, lineOut, sanAt>>
rvars == <<instances, resetInstances, mtx, regAt, regName, regRet, engines, logFilePath, regPath>>
bvars == <<setbufActs, fileBuffer, pending, delivered>>
lvars == <<at, stage, entry, processed, batch, stopLogging, fileMutex, currentSize,
           written, rotations, flushedLen, recSize, recLevel, benchmarkMode, legacyLogger, openFailed, raised, backend, logLevel, levelBuf, logOf, syncPre, drained>>
callervars == <<res, consumed, pre, lvars>>
vars == <<qvars, tvars, hvars, callervars, cvars, bvars, svars, rvars>>

(***************************************************************************)
(* LockFreeQueue(capacity): the constructor.                               *)
(***************************************************************************)
\* no constructor has run: not a word, its bit position being out of range
NoSize == {WordBits}
NoCall == <<>>

\* the member initialisers of LockFreeQueue::LockFreeQueue
CtorCapacity(n) == nextPowerOf2(n)
CtorMask(n) == Dec(CtorCapacity(n))

NewQueue(n) ==
    /\ capacity = ToNat(CtorCapacity(FromNat(n)))
    /\ mask = ToNat(CtorMask(FromNat(n)))
    /\ head = 0
    /\ tail = 0
    /\ slots = [i \in 0..(capacity - 1) |-> [turn |-> 0, val |-> NoItem]]

\* the threads of T are inside no call
IdleThreads(T) ==
    /\ pc = [t \in T |-> "idle"]
    /\ lhead = [t \in T |-> 0]
    /\ ltail = [t \in T |-> 0]
    /\ arg = [t \in T |-> NoItem]
    /\ out = [t \in T |-> NoItem]
    /\ res = [t \in T |-> FALSE]

ThreadsIdle == IdleThreads(Threads)

NoHistory ==
    /\ enqWon = <<>>
    /\ deqWon = <<>>
    /\ deqRet = EmptyBag

NoCtorRun ==
    /\ ctorArg = NoSize
    /\ ctorCap = NoSize
    /\ ctorMask = NoSize
    /\ ctorThrew = "none"
    /\ slotSizeLog2 = 0

\* no processLogEntry is run on its own
NoSanitizeRun ==
    /\ rendered = <<>>
    /\ buffer = <<>>
    /\ lineOut = <<>>
    /\ sanAt = "none"

\* no registry of Loggers is in use
NoRegistry ==
    /\ instances = <<>>
    /\ resetInstances = <<>>
    /\ mtx = 0
    /\ regAt = <<>>
    /\ regName = <<>>
    /\ regRet = <<>>
    /\ engines = <<>>
    /\ logFilePath = <<>>
    /\ regPath = <<>>

\* no file sink is looked at on its own
NoFileSinks ==
    /\ setbufActs = FALSE
    /\ fileBuffer = <<>>
    /\ pending = <<>>
    /\ delivered = <<>>

NoThread == 0

\* enum class Verbosity
DEBUG_LVL == 0
INFO_LVL == 1
WARN_LVL == 2
ERROR_LVL == 3
FATAL_LVL == 4

\* no Logger has been constructed around the queue
NoLogger ==
    /\ at = <<>>
    /\ stage = <<>>
    /\ entry = <<>>
    /\ processed = <<>>
    /\ batch = <<>>
    /\ stopLogging = FALSE
    /\ fileMutex = NoThread
    /\ currentSize = 0
    /\ written = <<>>
    /\ rotations = <<>>
    /\ flushedLen = 0
    /\ recSize = <<>>
    /\ recLevel = <<>>
    /\ benchmarkMode = FALSE
    /\ legacyLogger = FALSE
    /\ openFailed = FALSE
    /\ raised = {}
    /\ backend = <<>>
    /\ logLevel = <<>>
    /\ levelBuf = <<>>
    /\ logOf = <<>>
    /\ syncPre = <<>>
    /\ drained = {}

Init ==
    /\ \E n \in 2..MaxReqCapacity : NewQueue(n)
    /\ ThreadsIdle
    /\ NoHistory
    /\ consumed = <<>>
    /\ pre = NoCall
    /\ NoCtorRun
    /\ NoSanitizeRun
    /\ NoFileSinks
    /\ NoRegistry
    /\ NoLogger

(***************************************************************************)
(* enqueue_impl, one atomic access per step.                               *)
(***************************************************************************)
Idx(ticket) == BitAnd(ticket, mask)
Turn(ticket) == ticket \div capacity

\* a variant that reserves two slots: a ring of two slots is then always full
IsFullEarly(h, t) == IF h >= t THEN h - t >= capacity - 2 ELSE TRUE

\* a variant that lets the producers fill all _capacity slots
IsFullWholeRing(h, t) == IF h >= t THEN h - t >= capacity ELSE TRUE

\* (head - tail) >= (_capacity - 1) in size_t arithmetic: when the tail read
\* is ahead of the (stale) head read, head - tail wraps to a value close to
\* 2^WordBits, which is >= _capacity - 1.
IsFull(h, t) == IF h >= t THEN h - t >= capacity - 1 ELSE TRUE

\* a variant in which a compare-exchange stores whatever the variable holds
CasAlwaysStores(current, expected) == TRUE

\* the condition under which a compare-exchange succeeds
CasMatches(current, expected) == current = expected

\* threads inside enqueue_impl that have not won a ticket yet
InEnqueue == {t \in Threads : pc[t] \in {"e_head", "e_tail", "e_turn", "e_cas"}}

(***************************************************************************)
(* The callers of enqueue, dequeue and isEmpty: what each of them does     *)
(* with the result r of a call of thread t before its next access to       *)
(* shared memory.                                                          *)
(***************************************************************************)
\* the caller keeps the result where it can be inspected
Observe(t, r) ==
    /\ pc' = [pc EXCEPT ![t] = "ret"]
    /\ res' = [res EXCEPT ![t] = r]
    /\ out' = out
    /\ UNCHANGED <<consumed, pre, lvars>>

\* the caller needs the result no more; its `value` is dead until the next call
Discard(t, r) ==
    /\ pc' = [pc EXCEPT ![t] = "idle"]
    /\ out' = [out EXCEPT ![t] = NoItem]
    /\ UNCHANGED callervars

\* a default-constructed LogEntry
NoRecord == 0

\* the part of a continuation that leaves the logger's shared state alone
KeepLogger ==
    UNCHANGED <<res, consumed, pre, batch, stopLogging, fileMutex, currentSize,
                written, rotations, flushedLen, recSize, recLevel, benchmarkMode, legacyLogger, openFailed, raised, backend, logLevel, levelBuf, logOf, syncPre, drained>>

\* if (queue.dequeue(value)) { consumed.push_back(value); }: `value` lives on
Collect(t, r) ==
    /\ pc' = [pc EXCEPT ![t] = "idle"]
    /\ out' = out
    /\ consumed' = IF r THEN Append(consumed, out[t]) ELSE consumed
    /\ UNCHANGED <<res, pre, lvars>>

\* if (_log_buffer.enqueue(...)) { _cv.notify_one(); }
LogGot(t, r) ==
    /\ pc' = [pc EXCEPT ![t] = "idle"]
    /\ out' = out
    /\ at' = [at EXCEPT ![t] = IF r THEN "l_notify" ELSE "rest"]
    /\ entry' = [entry EXCEPT ![t] = IF r THEN entry[t] ELSE NoRecord]
    /\ UNCHANGED <<stage, processed>>
    /\ KeepLogger

\* true: processLogEntry(entry); false: the pass is over
SyncGot(t, r) ==
    /\ pc' = [pc EXCEPT ![t] = "idle"]
    /\ out' = out
    /\ at' = [at EXCEPT ![t] = IF r THEN "p_lock" ELSE "s_flush"]
    /\ UNCHANGED <<stage, entry, processed>>
    /\ KeepLogger

\* waitUntilEmpty returns: after a sync, the caller has done sync and then
\* waitUntilEmpty
WaitReturns(t) ==
    /\ at' = [at EXCEPT ![t] = "rest"]
    /\ stage' = [stage EXCEPT ![t] = IF @ = "synced" THEN "waited" ELSE @]

\* empty: return; not empty: sleep_for(5ms), then break if the 500ms have
\* passed and poll again if not
WaitGot(t, r) ==
    /\ pc' = [pc EXCEPT ![t] = "idle"]
    /\ out' = out
    /\ \/ WaitReturns(t)
       \/ /\ ~r
          /\ at' = [at EXCEPT ![t] = "w_again"]
          /\ UNCHANGED stage
    /\ UNCHANGED <<entry, processed>>
    /\ KeepLogger

\* the queue is empty: the predicate is false and the thread is about to
\* block; it is not: wait returns, and if (_stop_logging) break
DrainPredGot(t, r) ==
    /\ pc' = [pc EXCEPT ![t] = "idle"]
    /\ out' = out
    /\ at' = [at EXCEPT ![t] = IF r THEN "d_towait"
                               ELSE IF stopLogging THEN "d_exit" ELSE "d_deq"]
    /\ UNCHANGED <<stage, entry, processed>>
    /\ KeepLogger

\* true: batch.push_back(std::move(entry)); false: the batch is complete,
\* lock.unlock(), and processLogEntry for each entry of the batch
DrainGot(t, r) ==
    /\ pc' = [pc EXCEPT ![t] = "idle"]
    /\ out' = [out EXCEPT ![t] = NoRecord]
    /\ batch' = IF r THEN Append(batch, out[t]) ELSE batch
    /\ drained' = IF r THEN drained \cup {out[t]} ELSE drained
    /\ at' = [at EXCEPT ![t] = IF r THEN "d_deq"
                               ELSE IF batch = <<>> THEN "d_while" ELSE "p_lock"]
    /\ UNCHANGED <<res, consumed, pre, stage, entry, processed, stopLogging,
                   fileMutex, currentSize, written, rotations, flushedLen, recSize, recLevel,
                   benchmarkMode, legacyLogger, openFailed, raised, backend, logLevel, levelBuf, logOf, syncPre>>

\* the caller k of a queue operation goes on with its result
Continue(k, t, r) ==
    \/ k = "observe" /\ Observe(t, r)
    \/ k = "discard" /\ Discard(t, r)
    \/ k = "collect" /\ Collect(t, r)
    \/ k = "log" /\ LogGot(t, r)
    \/ k = "sync" /\ SyncGot(t, r)
    \/ k = "wait" /\ WaitGot(t, r)
    \/ k = "drainPred" /\ DrainPredGot(t, r)
    \/ k = "drain" /\ DrainGot(t, r)

\* A call made by caller k returns r: the locals of the call go out of scope
\* and the caller goes on.
Return(t, r, k) ==
    /\ lhead' = [lhead EXCEPT ![t] = 0]
    /\ ltail' = [ltail EXCEPT ![t] = 0]
    /\ arg' = [arg EXCEPT ![t] = NoItem]
    /\ Continue(k, t, r)

\* enqueue(item): the caller passes v; the call runs up to its first access
\* to shared memory, the load of head
BeginEnqueue(t, v) ==
    /\ pc[t] = "idle"
    /\ arg' = [arg EXCEPT ![t] = v]
    /\ lhead' = [lhead EXCEPT ![t] = head]
    /\ pc' = [pc EXCEPT ![t] = "e_tail"]
    /\ UNCHANGED <<ltail, out>>

\* the loop of enqueue_impl starts over after a failed compare-exchange
EnqLoadHead(t) ==
    /\ pc[t] = "e_head"
    /\ lhead' = [lhead EXCEPT ![t] = head]
    /\ pc' = [pc EXCEPT ![t] = "e_tail"]
    /\ UNCHANGED <<qvars, ltail, arg, out, hvars, callervars, cvars, bvars, svars, rvars>>

EnqLoadTail(t, k) ==
    /\ pc[t] = "e_tail"
    /\ IF IsFull(lhead[t], tail)
       THEN Return(t, FALSE, k)
       ELSE /\ pc' = [pc EXCEPT ![t] = "e_turn"]
            /\ UNCHANGED <<lhead, ltail, arg, out, callervars>>
    /\ UNCHANGED <<qvars, hvars, cvars, bvars, svars, rvars>>

\* a variant in which the producer does not look at the slot's turn
EnqSlotReadyAny(t) == TRUE

EnqSlotReady(t) == slots[Idx(lhead[t])].turn = 2 * Turn(lhead[t])

EnqLoadTurn(t, k) ==
    /\ pc[t] = "e_turn"
    /\ IF EnqSlotReady(t)
       THEN /\ pc' = [pc EXCEPT ![t] = "e_cas"]
            /\ UNCHANGED <<lhead, ltail, arg, out, callervars>>
       ELSE Return(t, FALSE, k)
    /\ UNCHANGED <<qvars, hvars, cvars, bvars, svars, rvars>>

EnqCasWin(t) ==
    /\ pc[t] = "e_cas"
    /\ CasMatches(head, lhead[t])
    /\ head' = lhead[t] + 1
    /\ enqWon' = Append(enqWon, <<lhead[t], arg[t]>>)
    /\ pc' = [pc EXCEPT ![t] = "e_store"]
    /\ UNCHANGED <<capacity, mask, tail, slots, lhead, ltail, arg, out,
                   deqWon, deqRet, callervars, cvars, bvars, svars, rvars>>

\* the compare-exchange fails because head moved: the loop starts over
EnqCasLose(t) ==
    /\ pc[t] = "e_cas"
    /\ ~CasMatches(head, lhead[t])
    /\ pc' = [pc EXCEPT ![t] = "e_head"]
    /\ UNCHANGED <<qvars, lhead, ltail, arg, out, hvars, callervars, cvars, bvars, svars, rvars>>

\* compare_exchange_weak may fail although head still holds the expected value
EnqCasSpurious(t) ==
    /\ pc[t] = "e_cas"
    /\ CasMatches(head, lhead[t])
    /\ pc' = [pc EXCEPT ![t] = "e_head"]
    /\ UNCHANGED <<qvars, lhead, ltail, arg, out, hvars, callervars, cvars, bvars, svars, rvars>>

\* new (&_slots[idx].storage) T(item)
EnqConstruct(t) ==
    /\ pc[t] = "e_store"
    /\ slots' = [slots EXCEPT ![Idx(lhead[t])].val = arg[t]]
    /\ pc' = [pc EXCEPT ![t] = "e_pub"]
    /\ UNCHANGED <<capacity, mask, head, tail, lhead, ltail, arg, out, hvars, callervars, cvars, bvars, svars, rvars>>

\* _slots[idx].turn.store(2 * turn + 1); return true
EnqPublish(t, k) ==
    /\ pc[t] = "e_pub"
    /\ slots' = [slots EXCEPT ![Idx(lhead[t])].turn = 2 * Turn(lhead[t]) + 1]
    /\ Return(t, TRUE, k)
    /\ UNCHANGED <<capacity, mask, head, tail, hvars, cvars, bvars, svars, rvars>>

(***************************************************************************)
(* dequeue, one atomic access per step.                                    *)
(***************************************************************************)
\* dequeue(item): the caller's variable holds v when the call starts; the call
\* runs up to its first access to shared memory, the load of tail
BeginDequeue(t, v) ==
    /\ pc[t] = "idle"
    /\ out' = [out EXCEPT ![t] = v]
    /\ ltail' = [ltail EXCEPT ![t] = tail]
    /\ pc' = [pc EXCEPT ![t] = "d_turn"]
    /\ UNCHANGED <<lhead, arg>>

\* the loop of dequeue starts over after a failed compare-exchange
DeqLoadTail(t) ==
    /\ pc[t] = "d_tail"
    /\ ltail' = [ltail EXCEPT ![t] = tail]
    /\ pc' = [pc EXCEPT ![t] = "d_turn"]
    /\ UNCHANGED <<qvars, lhead, arg, out, hvars, callervars, cvars, bvars, svars, rvars>>

\* a variant that takes an empty slot (turn 2*turn) for a full one
DeqSlotReadyEven(t) == slots[Idx(ltail[t])].turn = 2 * Turn(ltail[t])

DeqSlotReady(t) == slots[Idx(ltail[t])].turn = 2 * Turn(ltail[t]) + 1

DeqLoadTurn(t, k) ==
    /\ pc[t] = "d_turn"
    /\ IF DeqSlotReady(t)
       THEN /\ pc' = [pc EXCEPT ![t] = "d_cas"]
            /\ UNCHANGED <<lhead, ltail, arg, out, callervars>>
       ELSE Return(t, FALSE, k)
    /\ UNCHANGED <<qvars, hvars, cvars, bvars, svars, rvars>>

DeqCasWin(t) ==
    /\ pc[t] = "d_cas"
    /\ CasMatches(tail, ltail[t])
    /\ tail' = ltail[t] + 1
    /\ deqWon' = Append(deqWon, ltail[t])
    /\ pc' = [pc EXCEPT ![t] = "d_move"]
    /\ UNCHANGED <<capacity, mask, head, slots, lhead, ltail, arg, out,
                   enqWon, deqRet, callervars, cvars, bvars, svars, rvars>>

DeqCasLose(t) ==
    /\ pc[t] = "d_cas"
    /\ ~CasMatches(tail, ltail[t])
    /\ pc' = [pc EXCEPT ![t] = "d_tail"]
    /\ UNCHANGED <<qvars, lhead, ltail, arg, out, hvars, callervars, cvars, bvars, svars, rvars>>

DeqCasSpurious(t) ==
    /\ pc[t] = "d_cas"
    /\ CasMatches(tail, ltail[t])
    /\ pc' = [pc EXCEPT ![t] = "d_tail"]
    /\ UNCHANGED <<qvars, lhead, ltail, arg, out, hvars, callervars, cvars, bvars, svars, rvars>>

\* item = std::move(*ptr); ptr->~T()
DeqMove(t) ==
    /\ pc[t] = "d_move"
    /\ out' = [out EXCEPT ![t] = slots[Idx(ltail[t])].val]
    /\ slots' = [slots EXCEPT ![Idx(ltail[t])].val = NoItem]
    /\ pc' = [pc EXCEPT ![t] = "d_pub"]
    /\ UNCHANGED <<capacity, mask, head, tail, lhead, ltail, arg, hvars, callervars, cvars, bvars, svars, rvars>>

\* _slots[idx].turn.store(2 * (turn + 1)); return true
DeqRelease(t, k) ==
    /\ pc[t] = "d_pub"
    /\ slots' = [slots EXCEPT ![Idx(ltail[t])].turn = 2 * (Turn(ltail[t]) + 1)]
    /\ Return(t, TRUE, k)
    /\ deqRet' = deqRet (+) SetToBag({<<ltail[t], out[t]>>})
    /\ UNCHANGED <<capacity, mask, head, tail, enqWon, deqWon, cvars, bvars, svars, rvars>>

\* a step of enqueue_impl / dequeue that a thread can take on its own
EnqStep(t, k) ==
    \/ EnqLoadHead(t)
    \/ EnqLoadTail(t, k)
    \/ EnqLoadTurn(t, k)
    \/ EnqCasWin(t)
    \/ EnqCasSpurious(t)
    \/ EnqConstruct(t)
    \/ EnqPublish(t, k)

DeqStep(t, k) ==
    \/ DeqLoadTail(t)
    \/ DeqLoadTurn(t, k)
    \/ DeqCasWin(t)
    \/ DeqCasSpurious(t)
    \/ DeqMove(t)
    \/ DeqRelease(t, k)

(***************************************************************************)
(* Spec: any number of threads call enqueue and dequeue concurrently, as   *)
(* the producer and consumer threads of src/lock_free_queue.cpp do.  Each  *)
(* thread enqueues its own number, so items of different threads differ.   *)
(***************************************************************************)
CallEnqueue(t) ==
    /\ head + Cardinality(InEnqueue) < MaxTickets
    /\ BeginEnqueue(t, t)
    /\ UNCHANGED <<qvars, hvars, callervars, cvars, bvars, svars, rvars>>

CallDequeue(t) ==
    /\ BeginDequeue(t, NoItem)
    /\ UNCHANGED <<qvars, hvars, callervars, cvars, bvars, svars, rvars>>

Next ==
    \E t \in Threads :
        \/ CallEnqueue(t)
        \/ CallDequeue(t)
        \/ EnqStep(t, "discard")
        \/ EnqCasLose(t)
        \/ DeqStep(t, "discard")
        \/ DeqCasLose(t)

Spec == Init /\ [][Next]_vars

(***************************************************************************)
(* What the histories say.                                                 *)
(***************************************************************************)
\* threads that hold a producer ticket and have not published the slot yet
EnqOwners == {t \in Threads : pc[t] \in {"e_store", "e_pub"}}
\* threads that hold a consumer ticket and have not released the slot yet
DeqOwners == {t \in Threads : pc[t] \in {"d_move", "d_pub"}}

\* positions in enqWon of the enqueue calls that have returned true
EnqReturned ==
    {k \in DOMAIN enqWon : \A t \in EnqOwners : lhead[t] # enqWon[k][1]}

\* C1: in every reachable state of every interleaving of enqueue and dequeue
\* calls, 0 <= head - tail <= capacity - 1.
C1_SizeWithinRing ==
    /\ head >= tail
    /\ head - tail <= capacity - 1

\* the ring is full again after a ticket has been consumed, and a producer
\* is about to load tail for its fullness test
C1_Witness ==
    /\ tail >= 1
    /\ head - tail = capacity - 1
    /\ \E t \in Threads : pc[t] = "e_tail" /\ lhead[t] = head

\* C2: the dequeue that won consumer ticket t returns the item stored by the
\* enqueue that won producer ticket t; when the queue is back at head = tail
\* with no call holding a slot, the dequeued items in ticket order are the
\* enqueued items in ticket order.
C2_FifoByTicket ==
    /\ \A e \in BagToSet(deqRet) :
          /\ e[1] + 1 \in DOMAIN enqWon
          /\ enqWon[e[1] + 1] = e
          /\ CopiesIn(e, deqRet) = 1
    /\ (head = tail /\ EnqOwners = {} /\ DeqOwners = {}) =>
          /\ BagCardinality(deqRet) = Len(enqWon)
          /\ \A k \in DOMAIN enqWon : BagIn(enqWon[k], deqRet)

\* the queue is back at head = tail after items of two different threads
\* went through the ring and slot 0 was used a second time
C2_Witness ==
    /\ capacity = 2
    /\ head = tail
    /\ BagCardinality(deqRet) = 3
    /\ enqWon[1][2] # enqWon[2][2]

\* the number of dequeues that returned the item v
DeqCount(v) ==
    LET S == {e \in BagToSet(deqRet) : e[2] = v}
        RECURSIVE Sum(_)
        Sum(T) == IF T = {} THEN 0
                  ELSE LET e == CHOOSE x \in T : TRUE
                       IN  CopiesIn(e, deqRet) + Sum(T \ {e})
    IN  Sum(S)

\* C4: the items returned by successful dequeues are a sub-multiset of the
\* items accepted by successful enqueues, and once every enqueue call has
\* returned and the queue is seen empty, the successful dequeues (those that
\* still hold their slot included) are as many as the successful enqueues.
C4_NoLossNoDup ==
    /\ \A v \in {e[2] : e \in BagToSet(deqRet)} :
          DeqCount(v) <= Cardinality({k \in EnqReturned : enqWon[k][2] = v})
    /\ (head = tail /\ InEnqueue = {} /\ EnqOwners = {}) =>
          BagCardinality(deqRet) + Cardinality(DeqOwners) = Cardinality(EnqReturned)

\* every enqueue has returned, the queue is empty again and all calls returned
C4_Witness ==
    /\ head = tail
    /\ head = MaxTickets
    /\ \A t \in Threads : pc[t] = "idle"
    /\ BagCardinality(deqRet) = MaxTickets

\* C5: no two enqueue calls win the same producer ticket and no two dequeue
\* calls win the same consumer ticket; so no two threads hold the same slot
\* for the same turn.
C5_TicketsUnique ==
    /\ \A i, j \in DOMAIN enqWon : enqWon[i][1] = enqWon[j][1] => i = j
    /\ \A i, j \in DOMAIN deqWon : deqWon[i] = deqWon[j] => i = j
    /\ \A a, b \in EnqOwners : lhead[a] = lhead[b] => a = b
    /\ \A a, b \in DeqOwners : ltail[a] = ltail[b] => a = b

\* a thread is about to try its CAS on a ticket that another thread already
\* won, after a dequeue won a ticket too
C5_Witness ==
    /\ \E a \in Threads : pc[a] = "e_cas" /\ lhead[a] < head
    /\ Len(deqWon) >= 1

(***************************************************************************)
(* isEmpty(): two relaxed loads, head first.                               *)
(***************************************************************************)
BeginIsEmpty(t) ==
    /\ pc[t] = "idle"
    /\ lhead' = [lhead EXCEPT ![t] = head]
    /\ pc' = [pc EXCEPT ![t] = "i_tail"]
    /\ UNCHANGED <<ltail, arg, out>>

\* a variant with the comparison inverted
IsNonEmpty(h, t) == h # t

\* head == tail
IsEmptyResult(h, t) == h = t

IsEmptyLoadTail(t, k) ==
    /\ pc[t] = "i_tail"
    /\ Return(t, IsEmptyResult(lhead[t], tail), k)
    /\ UNCHANGED <<qvars, hvars, cvars, bvars, svars, rvars>>

(***************************************************************************)
(* SpecSPSC: one producer enqueues the items 1, 2, ..., NumItems in this   *)
(* order, calling enqueue again with the same item when it returns false;  *)
(* one consumer calls dequeue until it has received NumItems items and     *)
(* appends what it receives to `consumed` (the SPSC loops of               *)
(* tests/lock_free_queue_tests.cpp and src/lock_free_queue.cpp).           *)
(***************************************************************************)
Producer == 1
Consumer == 2

InitSPSC ==
    /\ \E n \in 2..MaxReqCapacity : NewQueue(n)
    /\ ThreadsIdle
    /\ NoHistory
    /\ consumed = <<>>
    /\ pre = NoCall
    /\ NoCtorRun
    /\ NoSanitizeRun
    /\ NoFileSinks
    /\ NoRegistry
    /\ NoLogger

\* while (!queue.enqueue(i)) {}: the item is the number of accepted items + 1
ProducerCall ==
    /\ Len(enqWon) < NumItems
    /\ BeginEnqueue(Producer, Len(enqWon) + 1)
    /\ UNCHANGED <<qvars, hvars, callervars, cvars, bvars, svars, rvars>>

\* if (queue.dequeue(value)) { consumed.push_back(value); }
ConsumerCall ==
    /\ Len(consumed) < NumItems
    /\ BeginDequeue(Consumer, out[Consumer])
    /\ UNCHANGED <<qvars, hvars, callervars, cvars, bvars, svars, rvars>>

ProducerStep == EnqStep(Producer, "discard")
ConsumerStep == DeqStep(Consumer, "collect")

NextSPSC ==
    \/ ProducerCall
    \/ ProducerStep
    \/ ConsumerCall
    \/ ConsumerStep

SpecSPSC == InitSPSC /\ [][NextSPSC]_vars

\* C3: with one producer enqueuing 1..N in order and one consumer, the
\* consumer receives exactly 1..N in that order, also when N exceeds the
\* capacity and the ring indices wrap: what it has received so far is always
\* the sequence 1, 2, ..., k for some k <= N.
C3_SpscOrder ==
    /\ Len(consumed) <= NumItems
    /\ \A i \in DOMAIN consumed : consumed[i] = i

\* the consumer has received all N items, N being larger than the capacity
C3_Witness ==
    /\ NumItems > capacity
    /\ consumed = [i \in 1..NumItems |-> i]
    /\ pc[Producer] = "idle"
    /\ pc[Consumer] = "idle"

(***************************************************************************)
(* SpecSeq: one thread calls enqueue, dequeue and isEmpty one after the    *)
(* other, no call overlapping another.  `pre` records the call and the     *)
(* state it started in, `res` what it returned.                            *)
(***************************************************************************)
Caller == 1

InitSeq ==
    /\ \E n \in 2..MaxReqCapacity : NewQueue(n)
    /\ ThreadsIdle
    /\ NoHistory
    /\ consumed = <<>>
    /\ pre = NoCall
    /\ NoCtorRun
    /\ NoSanitizeRun
    /\ NoFileSinks
    /\ NoRegistry
    /\ NoLogger

Snapshot(op) ==
    [op |-> op, head |-> head, tail |-> tail, slots |-> slots, out |-> out[Caller]]

SeqEnqueue ==
    /\ head < MaxSeqTickets
    /\ \E v \in Items : BeginEnqueue(Caller, v)
    /\ pre' = Snapshot("enqueue")
    /\ UNCHANGED <<qvars, hvars, res, consumed, lvars, cvars, bvars, svars, rvars>>

\* the caller's variable keeps what the last successful dequeue left in it
SeqDequeue ==
    /\ BeginDequeue(Caller, out[Caller])
    /\ pre' = Snapshot("dequeue")
    /\ UNCHANGED <<qvars, hvars, res, consumed, lvars, cvars, bvars, svars, rvars>>

SeqIsEmpty ==
    /\ BeginIsEmpty(Caller)
    /\ pre' = Snapshot("isEmpty")
    /\ UNCHANGED <<qvars, hvars, res, consumed, lvars, cvars, bvars, svars, rvars>>

\* the caller is done with the result of the call
SeqDone ==
    /\ pc[Caller] = "ret"
    /\ pc' = [pc EXCEPT ![Caller] = "idle"]
    /\ res' = [res EXCEPT ![Caller] = FALSE]
    /\ pre' = NoCall
    /\ UNCHANGED <<qvars, lhead, ltail, arg, out, hvars, consumed, lvars, cvars, bvars, svars, rvars>>

SeqEnqStep == EnqStep(Caller, "observe")
SeqDeqStep == DeqStep(Caller, "observe")
SeqIsEmptyStep == IsEmptyLoadTail(Caller, "observe")

NextSeq ==
    \/ SeqEnqueue
    \/ SeqDequeue
    \/ SeqIsEmpty
    \/ SeqEnqStep
    \/ SeqDeqStep
    \/ SeqIsEmptyStep
    \/ SeqDone

SpecSeq == InitSeq /\ [][NextSeq]_vars

Returned(op) == pc[Caller] = "ret" /\ pre # NoCall /\ pre.op = op

\* C6: with no other operation in flight, enqueue returns true iff
\* head - tail < capacity - 1 held when it was called; a call that returns
\* true advances head by one and leaves tail alone, so from an empty queue
\* exactly capacity - 1 consecutive enqueues succeed; a call that returns
\* false leaves head, tail and all the slots unchanged.
C6_SequentialEnqueue ==
    Returned("enqueue") =>
        /\ res[Caller] = (pre.head - pre.tail < capacity - 1)
        /\ res[Caller] => (head = pre.head + 1 /\ tail = pre.tail)
        /\ ~res[Caller] => (head = pre.head /\ tail = pre.tail /\ slots = pre.slots)

\* capacity - 1 enqueues went into the fresh queue and the next one has
\* returned false
C6_Witness ==
    /\ Returned("enqueue")
    /\ ~res[Caller]
    /\ capacity = 4
    /\ pre.tail = 0
    /\ pre.head = capacity - 1
    /\ Len(enqWon) = capacity - 1

\* C7: on a queue with head = tail and no operation in flight, isEmpty()
\* returns true and dequeue returns false, and the failed dequeue leaves
\* head, tail, the slots and the caller's variable unchanged.
C7_EmptyQueue ==
    /\ (Returned("isEmpty") /\ pre.head = pre.tail) => res[Caller]
    /\ (Returned("dequeue") /\ pre.head = pre.tail) =>
          /\ ~res[Caller]
          /\ head = pre.head
          /\ tail = pre.tail
          /\ slots = pre.slots
          /\ out[Caller] = pre.out

\* a dequeue has returned from a queue that was emptied after use, the
\* caller's variable still holding the item it received before
C7_Witness ==
    /\ Returned("dequeue")
    /\ pre.head = pre.tail
    /\ pre.head >= capacity
    /\ pre.out \in Items

(***************************************************************************)
(* SpecCap: the constructor's computation of _capacity and _mask on the    *)
(* whole range of size_t.  The requested capacities are the small numbers  *)
(* and the numbers next to each power of two.                              *)
(***************************************************************************)
Zero == {}
Pow2(k) == {k}
IsPow2(v) == \E k \in Bits : v = Pow2(k)

\* a < b as unsigned numbers
Less(a, b) ==
    \E i \in b \ a : \A j \in Bits : j > i => (j \in a <=> j \in b)
Leq(a, b) == a = b \/ Less(a, b)

CtorInputs ==
    {FromNat(n) : n \in 0..MaxSmallRequest}
        \cup {Pow2(k) : k \in Bits}
        \cup {Inc(Pow2(k)) : k \in Bits}
        \cup {Dec(Pow2(k)) : k \in Bits}

InitCap ==
    /\ \E n \in 2..MaxReqCapacity : NewQueue(n)
    /\ ThreadsIdle
    /\ NoHistory
    /\ consumed = <<>>
    /\ pre = NoCall
    /\ NoCtorRun
    /\ NoSanitizeRun
    /\ NoFileSinks
    /\ NoRegistry
    /\ NoLogger

\* CACHE_LINE_SIZE = 2^6 bytes
CACHE_LINE_LOG2 == 6

\* the slots a vector can hold when sizeof(Slot) = 2^s: no object is larger
\* than PTRDIFF_MAX bytes
MaxSlots(s) == Dec(Pow2(WordBits - 1 - s))

\* how _slots(cap) can end for slots of 2^s bytes: when cap slots are more
\* than a vector can hold, std::length_error, or std::bad_alloc from the
\* allocation of the slots or of the exception's message; otherwise the
\* vector is built, or the allocation of its cap slots fails with
\* std::bad_alloc (a vector of no slots allocates nothing)
SlotsOutcomes(cap, s) ==
    IF Less(MaxSlots(s), cap) THEN {"length_error", "bad_alloc"}
    ELSE IF cap = Zero THEN {"none"}
    ELSE {"none", "bad_alloc"}

\* LockFreeQueue<T>(n): the member initialisers _capacity, _mask and _slots;
\* an exception of _slots(_capacity) leaves the constructor and no queue
\* exists.  Slot is aligned to CACHE_LINE_SIZE, so that sizeof(Slot) is a
\* multiple of it that depends on T: 2^6 for int, more for a larger T.
Construct ==
    /\ ctorArg = NoSize
    /\ \E n \in CtorInputs : \E s \in CACHE_LINE_LOG2..MaxSlotSizeLog2 :
          \E e \in SlotsOutcomes(CtorCapacity(n), s) :
             /\ ctorArg' = n
             /\ slotSizeLog2' = s
             /\ ctorThrew' = e
             /\ ctorCap' = IF e = "none" THEN CtorCapacity(n) ELSE NoSize
             /\ ctorMask' = IF e = "none" THEN CtorMask(n) ELSE NoSize
    /\ UNCHANGED <<qvars, tvars, hvars, callervars, bvars, svars, rvars>>

NextCap == Construct

SpecCap == InitCap /\ [][NextCap]_vars

\* cap is the smallest power of two >= n, and m has exactly the bits below
\* the bit of cap
SmallestPow2AtLeast(n, cap, m) ==
    \E k \in Bits :
        /\ cap = Pow2(k)
        /\ Leq(n, cap)
        /\ k > 0 => Less(Pow2(k - 1), n)
        /\ m = {i \in Bits : i < k}

\* C8: for every requested capacity n >= 1, the capacity() of the
\* constructed queue is the smallest power of two >= n and the index mask is
\* capacity() - 1.
C8_AsStated ==
    (ctorArg # NoSize /\ ctorArg # Zero /\ ctorThrew = "none") =>
        SmallestPow2AtLeast(ctorArg, ctorCap, ctorMask)

(***************************************************************************)
(* The Logger around the queue: application threads call log,              *)
(* setLogLevel, sync and waitUntilEmpty, and the logging thread runs        *)
(* processLogQueue.  A record is its number in the order of the log calls. *)
(* legacyLogger tells which of the two Logger classes of the repository is *)
(* built: the one logger.hpp defines inline, or the one of logger.tpp with *)
(* log_sync.hpp and FileLogBackend.                                        *)
(***************************************************************************)
AppThreads == 1..NumAppThreads
DrainThread == NumAppThreads + 1
LogThreads == AppThreads \cup {DrainThread}
RecordSizes == 1..MaxRecordSize

\* the members of a Logger as its constructor initialises them, but for
\* _current_size
LoggerMembers ==
    /\ \E n \in 2..MaxReqCapacity : NewQueue(n)
    /\ IdleThreads(LogThreads)
    /\ NoHistory
    /\ consumed = <<>>
    /\ pre = NoCall
    /\ NoCtorRun
    /\ NoSanitizeRun
    /\ NoFileSinks
    /\ NoRegistry
    /\ stage = [t \in AppThreads |-> "ready"]
    /\ entry = [t \in AppThreads |-> NoRecord]
    /\ processed = [t \in AppThreads |-> FALSE]
    /\ batch = <<>>
    /\ stopLogging = FALSE
    /\ fileMutex = NoThread
    /\ written = <<>>
    /\ rotations = <<>>
    /\ flushedLen = 0
    /\ recSize = <<>>
    /\ recLevel = <<>>
    /\ levelBuf = [t \in AppThreads |-> <<>>]
    /\ raised = {}
    /\ logOf = [t \in AppThreads |-> {}]
    /\ syncPre = [t \in AppThreads |-> {}]
    /\ drained = {}

\* Logger::Logger has returned: the logging thread is at the top of
\* processLogQueue
\* rotateLogFile: _backend = std::make_unique<FileLogBackend>(_filename)
RotatedBackend == Append(backend, "file")

NewLogger ==
    /\ LoggerMembers
    /\ backend = <<"file">>
    /\ at = [t \in LogThreads |-> IF t = DrainThread THEN "d_while" ELSE "rest"]

\* the Logger of logger.tpp in either build of log_sync.hpp, constructed with
\* the default logLevel
InitLog ==
    /\ NewLogger
    /\ currentSize = 0
    /\ benchmarkMode \in BOOLEAN
    /\ legacyLogger = FALSE
    /\ openFailed = FALSE
    /\ logLevel = <<DEBUG_LVL>>

\* an application thread may start a call: it is inside none, and no thread
\* has started to destroy the Logger
AtRest(t) ==
    /\ at[t] = "rest"
    /\ pc[t] = "idle"
    /\ \A u \in AppThreads : stage[u] \notin {"destroying", "destroyed"}

(***************************************************************************)
(* Logger::setLogLevel and Logger::log                                     *)
(***************************************************************************)
\* the thread that owns the Logger: it alone calls setLogLevel, sync and
\* waitUntilEmpty and destroys the Logger, as the main thread of the tests does
Owner == 1

\* _log_level.store(level, relaxed): the call returns with the store still
\* on its way to the other threads
SetLogLevel(t, lvl) ==
    /\ AtRest(t)
    /\ Len(logLevel) + Len(levelBuf[t]) <= MaxLevelSets
    /\ levelBuf' = [levelBuf EXCEPT ![t] = Append(@, lvl)]
    /\ UNCHANGED <<qvars, tvars, hvars, res, consumed, pre, cvars, bvars, svars, rvars, at, stage, entry,
                   processed, batch, stopLogging, fileMutex, currentSize, written,
                   rotations, flushedLen, recSize, recLevel, benchmarkMode,
                   legacyLogger, openFailed, raised, backend, logLevel, logOf, syncPre, drained>>

\* the oldest store of thread t to _log_level becomes visible to every thread
LevelVisible(t) ==
    /\ levelBuf[t] # <<>>
    /\ logLevel' = Append(logLevel, Head(levelBuf[t]))
    /\ levelBuf' = [levelBuf EXCEPT ![t] = Tail(@)]
    /\ UNCHANGED <<qvars, tvars, hvars, res, consumed, pre, cvars, bvars, svars, rvars, at, stage, entry,
                   processed, batch, stopLogging, fileMutex, currentSize, written,
                   rotations, flushedLen, recSize, recLevel, benchmarkMode,
                   legacyLogger, openFailed, raised, backend, logOf, syncPre, drained>>

\* a variant in which a thread does not read its own store before the
\* others can
LevelReadShared(t) == logLevel[Len(logLevel)]

\* _log_level.load(relaxed) by thread t: its own latest store, or else the
\* value every thread can see
LevelRead(t) ==
    IF levelBuf[t] = <<>> THEN logLevel[Len(logLevel)] ELSE levelBuf[t][Len(levelBuf[t])]

\* the level given to the last setLogLevel call that has returned, or to the
\* constructor if there was none
LevelSet ==
    IF levelBuf[Owner] = <<>> THEN logLevel[Len(logLevel)]
    ELSE levelBuf[Owner][Len(levelBuf[Owner])]

\* a variant of the level test that lets every call through
LevelPassesAlways(lvl, cur) == TRUE

\* level >= _log_level.load()
LevelPasses(lvl, cur) == lvl >= cur

\* a variant in which the logging thread keeps _log_mutex while it processes
\* a batch
LogMutexHeldInBatch ==
    /\ at[DrainThread] \in {"d_while", "d_blocked", "d_exit"}
    /\ \A u \in AppThreads : at[u] \notin {"l_enq", "l_notify"}

\* logger.hpp's log locks _log_mutex around enqueue and notify_one; the
\* logging thread holds it except while it waits to lock it, is blocked in
\* _cv.wait, processes a batch or has returned
LogMutexFree ==
    /\ at[DrainThread] \in {"d_while", "d_blocked", "p_lock", "p_write", "p_newline", "d_exit"}
    /\ \A u \in AppThreads : at[u] \notin {"l_enq", "l_notify"}

\* log(lvl, ...) of a message that renders to s bytes.  Below the level: the
\* call returns.  Otherwise the entry is built and
\* _log_buffer.enqueue(std::move(entry)) starts; in logger.hpp's log the
\* thread first comes to the lock of _log_mutex.  The history keeps, for the
\* call: its level, the level it read, the level of the last setLogLevel call
\* that had returned, and whether that call is ordered before this one (made
\* by the same thread, or its store visible).
LogCall(t, lvl, s) ==
    /\ AtRest(t)
    /\ Len(recSize) < MaxRecords
    /\ recSize' = Append(recSize, s)
    /\ recLevel' = Append(recLevel, [level |-> lvl, seen |-> LevelRead(t),
                                     floor |-> LevelSet,
                                     ordered |-> t = Owner \/ levelBuf[Owner] = <<>>])
    /\ stage' = [stage EXCEPT ![t] = "ready"]
    /\ IF LevelPasses(lvl, LevelRead(t))
       THEN /\ entry' = [entry EXCEPT ![t] = Len(recSize) + 1]
            /\ IF legacyLogger
               THEN /\ at' = [at EXCEPT ![t] = "l_lock"]
                    /\ UNCHANGED tvars
               ELSE /\ BeginEnqueue(t, Len(recSize) + 1)
                    /\ at' = [at EXCEPT ![t] = "l_enq"]
       ELSE UNCHANGED <<tvars, entry, at>>
    /\ UNCHANGED <<qvars, hvars, res, consumed, pre, cvars, bvars, svars, rvars, processed, batch,
                   stopLogging, fileMutex, currentSize, written, rotations, flushedLen,
                   benchmarkMode, legacyLogger, openFailed, raised, backend, logLevel, levelBuf, logOf, syncPre, drained>>

\* logger.hpp's log: std::lock_guard<std::mutex> lock(_log_mutex), then
\* _log_buffer.enqueue(std::move(entry)) starts
LogLock(t) ==
    /\ at[t] = "l_lock"
    /\ LogMutexFree
    /\ BeginEnqueue(t, entry[t])
    /\ at' = [at EXCEPT ![t] = "l_enq"]
    /\ UNCHANGED <<qvars, hvars, res, consumed, pre, cvars, bvars, svars, rvars, stage, entry,
                   processed, batch, stopLogging, fileMutex, currentSize, written, rotations,
                   flushedLen, recSize, recLevel, benchmarkMode, legacyLogger, openFailed, raised,
                   backend, logLevel, levelBuf, logOf, syncPre, drained>>

\* _cv.notify_one() wakes the logging thread if it is blocked in _cv.wait;
\* then log returns
LogNotify(t) ==
    /\ at[t] = "l_notify"
    /\ at' = [at EXCEPT ![t] = "rest",
                        ![DrainThread] = IF @ = "d_blocked" THEN "d_while" ELSE @]
    /\ logOf' = [logOf EXCEPT ![t] = @ \cup {entry[t]}]
    /\ entry' = [entry EXCEPT ![t] = NoRecord]
    /\ UNCHANGED <<qvars, tvars, hvars, res, consumed, pre, cvars, bvars, svars, rvars, stage, processed,
                   batch, stopLogging, fileMutex, currentSize, written, rotations, flushedLen,
                   recSize, recLevel, benchmarkMode, legacyLogger, openFailed, raised, backend, logLevel, levelBuf, syncPre, drained>>

(***************************************************************************)
(* Logger::processLogEntry, called by sync and by the logging thread       *)
(***************************************************************************)
\* the entry that thread t is processing
Processing(t) == IF t = DrainThread THEN Head(batch) ELSE out[t]

\* a variant of the mutex that never makes a thread wait
FileMutexIgnored == TRUE

\* whether a thread can lock _file_mutex
FileMutexFree == fileMutex = NoThread

\* std::lock_guard<std::mutex> lock(_file_mutex)
ProcessLock(t) ==
    /\ at[t] = "p_lock"
    /\ FileMutexFree
    /\ fileMutex' = t
    /\ at' = [at EXCEPT ![t] = "p_write"]
    /\ UNCHANGED <<qvars, tvars, hvars, res, consumed, pre, cvars, bvars, svars, rvars, stage, entry,
                   processed, batch, stopLogging, currentSize, written, rotations, flushedLen,
                   recSize, recLevel, benchmarkMode, legacyLogger, openFailed, raised, backend, logLevel, levelBuf, logOf, syncPre, drained>>

\* a variant that rotates only once the file has grown beyond MaxFileSize
MustRotateLate(size) == currentSize > MaxFileSize

\* a variant that rotates already when the record fills the file exactly
MustRotateAtLimit(size) == currentSize + size >= MaxFileSize

\* _current_size + log_entry_buffer.size() > MaxFileSize
MustRotate(size) == currentSize + size > MaxFileSize

\* the byte _backend->writeNewline() writes
Newline == 0

\* How much of what the sink was given can have reached the file after a
\* write or put that brings it from old to new chunks, cur of them delivered
\* before.  ConsoleLogBackend writes straight to stdout.  A stream buffers:
\* the chunk stays in its buffer, or the buffer runs full and what was
\* pending is written out, or the pending bytes and the chunk go out
\* together; which one depends on the sizes and on the stream buffer of the
\* build.
WriteDelivers(cur, old, new) ==
    IF backend # <<>> /\ backend[Len(backend)] = "supplied" THEN {new} ELSE {cur, old, new}

\* rotateLogFile when due (the stream that is replaced writes out what it
\* buffered when it is closed, and _current_size restarts at 0), then write
ProcessWrite(t) ==
    /\ at[t] = "p_write"
    /\ LET e == Processing(t)
           rotate == MustRotate(recSize[e])
       IN  /\ written' = Append(written, e)
           /\ rotations' = IF rotate THEN Append(rotations, Len(written)) ELSE rotations
           /\ flushedLen' \in IF rotate THEN {Len(written), Len(written) + 1}
                            ELSE WriteDelivers(flushedLen, Len(written), Len(written) + 1)
           /\ currentSize' = IF rotate THEN 0 ELSE currentSize
           /\ backend' = IF rotate /\ ~legacyLogger THEN RotatedBackend ELSE backend
    /\ at' = [at EXCEPT ![t] = "p_newline"]
    /\ UNCHANGED <<qvars, tvars, hvars, res, consumed, pre, cvars, bvars, svars, rvars, stage, entry,
                   processed, batch, stopLogging, fileMutex, recSize, recLevel,
                   benchmarkMode, legacyLogger, openFailed, raised, logLevel, levelBuf, logOf, syncPre,
                   drained>>

\* writeNewline (logger.hpp: << std::endl, which flushes),
\* _current_size += size, and the guard unlocks _file_mutex
ProcessNewline(t) ==
    /\ at[t] = "p_newline"
    /\ written' = Append(written, Newline)
    /\ flushedLen' \in IF legacyLogger THEN {Len(written) + 1}
                     ELSE WriteDelivers(flushedLen, Len(written), Len(written) + 1)
    /\ currentSize' = currentSize + recSize[Processing(t)]
    /\ fileMutex' = NoThread
    /\ IF t = DrainThread
       THEN /\ batch' = Tail(batch)
            /\ at' = [at EXCEPT ![t] = IF Tail(batch) = <<>> THEN "d_while" ELSE "p_lock"]
            /\ UNCHANGED processed
       ELSE /\ processed' = [processed EXCEPT ![t] = TRUE]
            /\ at' = [at EXCEPT ![t] = "s_deq"]
            /\ UNCHANGED batch
    /\ UNCHANGED <<qvars, tvars, hvars, res, consumed, pre, cvars, bvars, svars, rvars, stage, entry,
                   stopLogging, rotations, recSize, recLevel, benchmarkMode,
                   legacyLogger, openFailed, raised, backend, logLevel, levelBuf, logOf, syncPre, drained>>

(***************************************************************************)
(* Logger::sync = syncLogs, in both builds of log_sync.hpp; the sync of    *)
(* logger.hpp is the single pass of BENCHMARK_MODE.  The clock is          *)
(* not modelled: whether stable_duration has passed since start_stable is  *)
(* open whenever the code asks, since a thread may be delayed for any time *)
(* between two steps.                                                      *)
(***************************************************************************)
\* LogEntry entry; start_stable = now(); processed = false; the first
\* log_buffer.dequeue(entry) starts
SyncStart(t, stg) ==
    /\ AtRest(t)
    /\ BeginDequeue(t, NoRecord)
    /\ at' = [at EXCEPT ![t] = "s_deq"]
    /\ stage' = [stage EXCEPT ![t] = stg]
    /\ processed' = [processed EXCEPT ![t] = FALSE]
    /\ syncPre' = [syncPre EXCEPT ![t] = UNION {logOf[u] : u \in AppThreads}]
    /\ UNCHANGED <<qvars, hvars, res, consumed, pre, cvars, bvars, svars, rvars, entry, batch, stopLogging,
                   fileMutex, currentSize, written, rotations, flushedLen, recSize, recLevel,
                   benchmarkMode, legacyLogger, openFailed, raised, backend, logLevel, levelBuf, logOf, drained>>

SyncCall(t) == SyncStart(t, stage[t])

\* while (log_buffer.dequeue(entry)): the next call
SyncDequeue(t) ==
    /\ at[t] = "s_deq"
    /\ pc[t] = "idle"
    /\ BeginDequeue(t, out[t])
    /\ UNCHANGED <<qvars, hvars, callervars, cvars, bvars, svars, rvars>>

\* { lock_guard lock(file_mutex); backend->flush(); }
SyncFlushes(t) ==
    /\ at[t] = "s_flush"
    /\ FileMutexFree
    /\ flushedLen' = Len(written)

\* sync returns to its caller, which is ~Logger or the application
SyncReturns(t) ==
    IF stage[t] = "destroying"
    THEN /\ at' = [at EXCEPT ![t] = "x_stop"]
         /\ UNCHANGED stage
    ELSE /\ at' = [at EXCEPT ![t] = "rest"]
         /\ stage' = [stage EXCEPT ![t] = "synced"]

\* the flush of the last pass: the only pass under BENCHMARK_MODE; otherwise
\* a pass that processed nothing, stable_duration after start_stable (the
\* empty_cv.notify_all() that follows finds no thread waiting on empty_cv)
SyncFlushReturn(t) ==
    /\ SyncFlushes(t)
    /\ benchmarkMode \/ legacyLogger \/ ~processed[t]
    /\ SyncReturns(t)
    /\ out' = [out EXCEPT ![t] = NoRecord]
    /\ UNCHANGED <<qvars, pc, lhead, ltail, arg, hvars, res, consumed, pre, cvars, bvars, svars, rvars,
                   entry, processed, batch, stopLogging, fileMutex, currentSize,
                   written, rotations, recSize, recLevel, benchmarkMode, legacyLogger, openFailed, raised, backend, logLevel, levelBuf, logOf, syncPre, drained>>

\* the flush of a pass that is not the last one: start_stable = now() if the
\* pass processed a record, then sleep_for(5ms) and the next pass
SyncFlushAgain(t) ==
    /\ SyncFlushes(t)
    /\ ~benchmarkMode /\ ~legacyLogger
    /\ processed' = [processed EXCEPT ![t] = FALSE]
    /\ at' = [at EXCEPT ![t] = "s_deq"]
    /\ UNCHANGED <<qvars, tvars, hvars, res, consumed, pre, cvars, bvars, svars, rvars, stage, entry,
                   batch, stopLogging, fileMutex, currentSize, written, rotations, recSize, recLevel,
                   benchmarkMode, legacyLogger, openFailed, raised, backend, logLevel, levelBuf, logOf, syncPre, drained>>

(***************************************************************************)
(* Logger::waitUntilEmpty                                                  *)
(***************************************************************************)
\* while (!log_buffer.isEmpty()): the first load (the Logger of logger.hpp
\* has no waitUntilEmpty)
WaitCall(t) ==
    /\ AtRest(t)
    /\ ~legacyLogger
    /\ BeginIsEmpty(t)
    /\ at' = [at EXCEPT ![t] = "w_poll"]
    /\ UNCHANGED <<qvars, hvars, res, consumed, pre, cvars, bvars, svars, rvars, stage, entry, processed,
                   batch, stopLogging, fileMutex, currentSize, written, rotations, flushedLen,
                   recSize, recLevel, benchmarkMode, legacyLogger, openFailed, raised, backend, logLevel, levelBuf, logOf, syncPre, drained>>

WaitAgain(t) ==
    /\ at[t] = "w_again"
    /\ pc[t] = "idle"
    /\ BeginIsEmpty(t)
    /\ at' = [at EXCEPT ![t] = "w_poll"]
    /\ UNCHANGED <<qvars, hvars, res, consumed, pre, cvars, bvars, svars, rvars, stage, entry, processed,
                   batch, stopLogging, fileMutex, currentSize, written, rotations, flushedLen,
                   recSize, recLevel, benchmarkMode, legacyLogger, openFailed, raised, backend, logLevel, levelBuf, logOf, syncPre, drained>>

(***************************************************************************)
(* Logger::~Logger, run by one thread when no call is in progress: a call  *)
(* of another thread that overlaps the destruction would use the members   *)
(* after they are destroyed, which the tests avoid by joining their        *)
(* threads before the Logger goes out of scope                             *)
(***************************************************************************)
\* no thread but t is inside a call of the Logger
NoCallInProgress(t) ==
    \A u \in AppThreads \ {t} : at[u] = "rest" /\ pc[u] = "idle"

\* sync()
DtorCall(t) == NoCallInProgress(t) /\ SyncStart(t, "destroying")

\* _stop_logging = true
DtorStop(t) ==
    /\ at[t] = "x_stop"
    /\ stopLogging' = TRUE
    /\ at' = [at EXCEPT ![t] = "x_notify"]
    /\ UNCHANGED <<qvars, tvars, hvars, res, consumed, pre, cvars, bvars, svars, rvars, stage, entry,
                   processed, batch, fileMutex, currentSize, written, rotations, flushedLen,
                   recSize, recLevel, benchmarkMode, legacyLogger, openFailed, raised, backend, logLevel, levelBuf, logOf, syncPre, drained>>

\* _cv.notify_all()
DtorNotify(t) ==
    /\ at[t] = "x_notify"
    /\ at' = [at EXCEPT ![t] = "x_join",
                        ![DrainThread] = IF @ = "d_blocked" THEN "d_while" ELSE @]
    /\ UNCHANGED <<qvars, tvars, hvars, res, consumed, pre, cvars, bvars, svars, rvars, stage, entry,
                   processed, batch, stopLogging, fileMutex, currentSize, written, rotations,
                   flushedLen, recSize, recLevel, benchmarkMode, legacyLogger, openFailed, raised, backend, logLevel, levelBuf, logOf, syncPre, drained>>

\* a variant of join() that does not wait
DrainDetached == TRUE

\* processLogQueue has returned: the logging thread can be joined
DrainReturned == at[DrainThread] = "d_exit"

\* _logging_thread.join() returns once processLogQueue has returned; then the
\* members are destroyed, and ~FileLogBackend closes the stream, which writes
\* out what it buffered
DtorJoin(t) ==
    /\ at[t] = "x_join"
    /\ DrainReturned
    /\ flushedLen' = Len(written)
    /\ at' = [at EXCEPT ![t] = "rest"]
    /\ stage' = [stage EXCEPT ![t] = "destroyed"]
    /\ UNCHANGED <<qvars, tvars, hvars, res, consumed, pre, cvars, bvars, svars, rvars, entry, processed,
                   batch, stopLogging, fileMutex, currentSize, written, rotations, recSize, recLevel,
                   benchmarkMode, legacyLogger, openFailed, raised, backend, logLevel, levelBuf, logOf, syncPre, drained>>

(***************************************************************************)
(* Logger::processLogQueue, the logging thread.  It holds _log_mutex       *)
(* except inside _cv.wait and while it processes a batch; no other code of *)
(* logger.tpp locks _log_mutex, so the lock never blocks and is no state.  *)
(***************************************************************************)
DrainMoves(from, to) ==
    /\ at[DrainThread] = from
    /\ pc[DrainThread] = "idle"
    /\ at' = [at EXCEPT ![DrainThread] = to]

DrainFrame ==
    UNCHANGED <<qvars, tvars, hvars, res, consumed, pre, cvars, bvars, svars, rvars, stage, entry,
                processed, batch, stopLogging, fileMutex, currentSize, written, rotations,
                flushedLen, recSize, recLevel, benchmarkMode, legacyLogger, openFailed, raised, backend, logLevel, levelBuf, logOf, syncPre, drained>>

\* while (!_stop_logging) and the predicate of _cv.wait,
\* _stop_logging || !_log_buffer.isEmpty(), up to the first load of isEmpty.
\* The loop condition and the predicate read the same flag one after the
\* other, and the thread leaves the loop whichever of the two reads sees it
\* set, so they are one step.
DrainWhile ==
    /\ at[DrainThread] = "d_while"
    /\ pc[DrainThread] = "idle"
    /\ legacyLogger => \A u \in AppThreads : at[u] \notin {"l_enq", "l_notify"}
    /\ IF stopLogging
       THEN /\ at' = [at EXCEPT ![DrainThread] = "d_exit"]
            /\ UNCHANGED tvars
       ELSE /\ at' = [at EXCEPT ![DrainThread] = "d_empty"]
            /\ BeginIsEmpty(DrainThread)
    /\ UNCHANGED <<qvars, hvars, res, consumed, pre, cvars, bvars, svars, rvars, stage, entry, processed,
                   batch, stopLogging, fileMutex, currentSize, written, rotations, flushedLen,
                   recSize, recLevel, benchmarkMode, legacyLogger, openFailed, raised, backend, logLevel, levelBuf, logOf, syncPre, drained>>

\* the thread blocks inside wait; a notification sent before this is lost
DrainBlocks ==
    /\ DrainMoves("d_towait", "d_blocked")
    /\ DrainFrame

\* a condition variable may wake up without a notification
DrainSpuriousWake ==
    /\ DrainMoves("d_blocked", "d_while")
    /\ DrainFrame

\* while (_log_buffer.dequeue(entry)): the next call
DrainDequeue ==
    /\ DrainMoves("d_deq", "d_deq")
    /\ BeginDequeue(DrainThread, NoRecord)
    /\ UNCHANGED <<qvars, hvars, res, consumed, pre, cvars, bvars, svars, rvars, stage, entry, processed,
                   batch, stopLogging, fileMutex, currentSize, written, rotations, flushedLen,
                   recSize, recLevel, benchmarkMode, legacyLogger, openFailed, raised, backend, logLevel, levelBuf, logOf, syncPre, drained>>

(***************************************************************************)
(* SpecLog: the Logger with its application threads and logging thread.    *)
(***************************************************************************)
\* every application thread logs, at the level the Logger was constructed
\* with; the thread that owns the Logger also calls sync and waitUntilEmpty
\* and destroys it
LogCalls == \E t \in AppThreads : \E s \in RecordSizes : LogCall(t, LevelRead(t), s)

OwnerCalls ==
    \/ SyncCall(Owner)
    \/ WaitCall(Owner)
    \/ DtorCall(Owner)

LogStep(t) == at[t] = "l_enq" /\ (EnqStep(t, "log") \/ EnqCasLose(t))
SyncStep(t) == at[t] = "s_deq" /\ (DeqStep(t, "sync") \/ DeqCasLose(t))
WaitStep(t) == at[t] = "w_poll" /\ IsEmptyLoadTail(t, "wait")
DrainPredStep == at[DrainThread] = "d_empty" /\ IsEmptyLoadTail(DrainThread, "drainPred")
DrainDeqStep ==
    at[DrainThread] = "d_deq" /\ (DeqStep(DrainThread, "drain") \/ DeqCasLose(DrainThread))

AppStep(t) ==
    \/ LogStep(t)
    \/ LogNotify(t)
    \/ SyncDequeue(t)
    \/ SyncStep(t)
    \/ SyncFlushReturn(t)
    \/ SyncFlushAgain(t)
    \/ WaitAgain(t)
    \/ WaitStep(t)
    \/ DtorStop(t)
    \/ DtorNotify(t)
    \/ DtorJoin(t)

DrainStep ==
    \/ DrainWhile
    \/ DrainPredStep
    \/ DrainBlocks
    \/ DrainSpuriousWake
    \/ DrainDequeue
    \/ DrainDeqStep

NextLog ==
    \/ LogCalls
    \/ OwnerCalls
    \/ \E t \in AppThreads : AppStep(t)
    \/ \E t \in LogThreads : ProcessLock(t) \/ ProcessWrite(t) \/ ProcessNewline(t)
    \/ DrainStep

SpecLog == InitLog /\ [][NextLog]_vars

\* what rotateLogFile has removed from the file: logger.hpp reopens it with
\* ios::trunc, FileLogBackend with ios::app
Truncated == IF legacyLogger /\ rotations # <<>> THEN rotations[Len(rotations)] ELSE 0

\* the records whose line, text and newline, an outside reader finds in the file
InFile ==
    IF openFailed THEN {}
    ELSE {written[i] : i \in {j \in (Truncated + 1)..(flushedLen - 1) :
                                 written[j] # Newline /\ written[j + 1] = Newline}}

\* the records the logging thread has taken out of the ring: those its
\* dequeue calls returned and the one whose consumer ticket it holds
DrainTook ==
    drained \cup
    (IF pc[DrainThread] \in {"d_move", "d_pub"}
     THEN {enqWon[ltail[DrainThread] + 1][2]} ELSE {})

\* thread t has returned from sync and has started no call since
SyncReturned(t) == stage[t] = "synced" /\ at[t] = "rest"

\* C9: when sync() has returned, every record whose log() call had returned
\* after a successful enqueue before sync() was called, and that the logging
\* thread did not dequeue, has been written to the sink and flushed.
C9_SyncWritesWhatWasLogged ==
    \A t \in AppThreads :
        SyncReturned(t) => \A r \in syncPre[t] : r \in DrainTook \/ r \in InFile

\* thread t has called log, then sync, then waitUntilEmpty, and all of them
\* have returned
LoggedSyncedWaited(t) == stage[t] = "waited" /\ at[t] = "rest"

\* C10: after a thread has called log() (the enqueue succeeding), then
\* sync(), then waitUntilEmpty(), and both have returned, the record's line
\* is in the sink's output as an outside reader sees it.
C10_LineVisibleAfterSyncAndWait ==
    \A t \in AppThreads :
        LoggedSyncedWaited(t) => \A r \in logOf[t] : r \in InFile

\* every log call so far was made by thread t, and its enqueue succeeded or
\* is in progress
SingleProducer(t) == \A r \in 1..Len(recSize) : r \in logOf[t] \/ entry[t] = r

\* the records in the order in which their text was written to the sink
WrittenRecords == SelectSeq(written, LAMBDA c : c # Newline)

\* C11: when a single producer thread has emitted records R1..Rn in program
\* order, all successfully enqueued, the lines written to the sink are in the
\* order R1..Rn, in every interleaving of the logging thread with sync()
\* calls, the sync() of the destructor included.
C11_SingleProducerOrder ==
    SingleProducer(Owner) =>
        \A i, j \in 1..Len(WrittenRecords) :
            i < j => WrittenRecords[i] < WrittenRecords[j]

(***************************************************************************)
(* SpecOwner: a program whose Owner thread alone uses the Logger, of       *)
(* either class and build.  Its records may be longer than MaxFileSize.    *)
(***************************************************************************)
\* logger.hpp's openLogFile opens the file for appending and sets
\* _current_size = _logfile.tellp(), the size of the file it finds;
\* logger.tpp's Logger starts with _current_size = 0 on whatever file
MaxExistingSize == 3    \* the largest file a Logger is constructed on

InitOwner ==
    /\ NewLogger
    /\ benchmarkMode \in BOOLEAN
    /\ legacyLogger \in BOOLEAN
    /\ legacyLogger => ~benchmarkMode
    /\ currentSize \in IF legacyLogger THEN 0..MaxExistingSize ELSE {0}
    /\ openFailed = FALSE
    /\ logLevel = <<DEBUG_LVL>>

NextOwner ==
    \/ \E s \in 1..(MaxFileSize + 1) : LogCall(Owner, LevelRead(Owner), s)
    \/ OwnerCalls
    \/ AppStep(Owner)
    \/ \E t \in {Owner, DrainThread} : ProcessLock(t) \/ ProcessWrite(t) \/ ProcessNewline(t)
    \/ DrainStep

\* what the Owner thread and the logging thread do when they are scheduled;
\* a wake-up of _cv.wait without a notification is not among them
OwnerRuns ==
    \/ LogLock(Owner)
    \/ AppStep(Owner) \/ ProcessLock(Owner) \/ ProcessWrite(Owner) \/ ProcessNewline(Owner)

DrainRuns ==
    \/ DrainWhile
    \/ DrainPredStep
    \/ DrainBlocks
    \/ DrainDequeue
    \/ DrainDeqStep
    \/ ProcessLock(DrainThread) \/ ProcessWrite(DrainThread) \/ ProcessNewline(DrainThread)

\* with either Logger class: logger.hpp's log has the lock of _log_mutex
NextBoth ==
    \/ NextOwner
    \/ LogLock(Owner)

SpecOwner == InitOwner /\ [][NextBoth]_vars

\* Fair scheduling: a thread that can take a step takes one, and
\* compare_exchange_weak does not fail for ever on a value that matches.
SpecOwnerFair ==
    /\ InitOwner
    /\ [][NextBoth]_vars
    /\ WF_vars(OwnerRuns)
    /\ WF_vars(DrainRuns)
    /\ \A t \in {Owner, DrainThread} : SF_vars(DeqCasWin(t)) /\ SF_vars(EnqCasWin(t))

\* C12: once the destructor has run sync(), set the stop flag and called
\* notify_all, the logging thread eventually leaves its loop and the join
\* returns, under fair scheduling.
C12_DestructionCompletes ==
    (at[Owner] = "x_join") ~> (stage[Owner] = "destroyed")

\* the records that were successfully enqueued
Enqueued == {enqWon[k][2] : k \in 1..Len(enqWon)}

\* the destructor has returned
Destroyed == stage[Owner] = "destroyed"

\* C13: the sink receives the text of a record and its newline with no byte
\* of another record in between, also when the logging thread and a sync()
\* caller write concurrently; every record written was successfully enqueued
\* and is written at most once, so that N enqueued records give at most N
\* lines; and once the engine is destroyed the file holds whole lines only.
C13_WholeLinesAtMostOnce ==
    /\ \A i \in 1..Len(written) : (written[i] = Newline) <=> (i % 2 = 0)
    /\ \A i \in 1..Len(WrittenRecords) :
          /\ WrittenRecords[i] \in Enqueued
          /\ \A j \in 1..Len(WrittenRecords) :
                WrittenRecords[i] = WrittenRecords[j] => i = j
    /\ Len(WrittenRecords) <= Len(enqWon)
    /\ Destroyed => (Len(written) % 2 = 0 /\ flushedLen = Len(written))

\* the engine is destroyed after two records were written, one by the logging
\* thread and one by a sync() call
C13_Witness ==
    /\ Destroyed
    /\ Len(WrittenRecords) = 2
    /\ \E i, j \in 1..2 : WrittenRecords[i] \in drained /\ WrittenRecords[j] \notin drained

(***************************************************************************)
(* SpecLevel: the level filter.  The application threads log while the     *)
(* Owner changes the level, and the logging thread writes what arrives.    *)
(* The Logger is constructed at WARN, as in the test, on a ring that holds *)
(* every record; the levels in use are WARN, one below and one above.      *)
(***************************************************************************)
LevelsUsed == {DEBUG_LVL, WARN_LVL, ERROR_LVL}

\* the level setLogLevel is called with: the Owner raises the level
LevelsSet == {ERROR_LVL}

InitLevel ==
    /\ NewLogger
    /\ currentSize = 0
    /\ benchmarkMode = FALSE
    /\ legacyLogger = FALSE
    /\ openFailed = FALSE
    /\ logLevel = <<WARN_LVL>>
    /\ capacity > MaxRecords

NextLevel ==
    \/ \E t \in AppThreads : \E lvl \in LevelsUsed : LogCall(t, lvl, MaxRecordSize)
    \/ \E lvl \in LevelsSet : SetLogLevel(Owner, lvl)
    \/ LevelVisible(Owner)
    \/ OwnerCalls
    \/ \E t \in AppThreads : AppStep(t)
    \/ \E t \in LogThreads : ProcessLock(t) \/ ProcessWrite(t) \/ ProcessNewline(t)
    \/ DrainStep

SpecLevel == InitLevel /\ [][NextLevel]_vars

\* the log calls made so far
LogCallsMade == 1..Len(recLevel)

\* the enqueue of record r has started or succeeded
EnqueueTried(r) == r \in Enqueued \/ \E t \in AppThreads : entry[t] = r

\* C14: a log() call whose level is below the level it reads from the engine
\* returns without enqueuing anything, without signalling the condition
\* variable and without changing the ring; a call whose level is at or above
\* it starts exactly one enqueue.  So only records at or above the level
\* their call read are enqueued or reach the sink, each at most once.
C14_LevelFilter ==
    /\ [](\A r \in LogCallsMade :
            /\ (EnqueueTried(r) \/ \E i \in 1..Len(written) : written[i] = r)
                  => recLevel[r].level >= recLevel[r].seen
            /\ Cardinality({k \in 1..Len(enqWon) : enqWon[k][2] = r}) <= 1)
    /\ [][Len(recLevel') > Len(recLevel) =>
            LET r == Len(recLevel')
            IN  IF recLevel'[r].level < recLevel'[r].seen
                THEN UNCHANGED <<qvars, tvars, hvars, at, entry, written>>
                ELSE \E t \in AppThreads :
                        /\ pc[t] = "idle" /\ pc'[t] = "e_tail" /\ arg'[t] = r
                        /\ \A u \in LogThreads \ {t} : pc'[u] = pc[u]]_vars

\* the engine was constructed with level WARN; the DEBUG record 1 was not
\* enqueued, the WARN or ERROR record 2 has reached the sink
C14_Witness ==
    /\ logLevel = <<WARN_LVL>>
    /\ Len(recLevel) = 2
    /\ recLevel[1].level = DEBUG_LVL /\ ~EnqueueTried(1)
    /\ recLevel[2].level >= WARN_LVL /\ WrittenRecords = <<2>>

\* C15 as stated: after a setLogLevel(L) call has returned, every log() call
\* that starts afterwards with a level below L is dropped at the producer.
C15_AsStated ==
    \A r \in LogCallsMade :
        recLevel[r].level < recLevel[r].floor => ~EnqueueTried(r)

\* C15: after a setLogLevel(L) call has returned, a log() call with a level
\* below L is dropped at the producer if it is ordered after the setLogLevel
\* call: made by the same thread, or started once the relaxed store has
\* become visible.
C15_DroppedOnceLevelIsSeen ==
    \A r \in LogCallsMade :
        (recLevel[r].ordered /\ recLevel[r].level < recLevel[r].floor) => ~EnqueueTried(r)

\* the Owner raised the level and then logged below it, at a level the
\* engine would have let through before, while its store was still on its
\* way to the other threads: the record was dropped
C15_Witness ==
    \E r \in LogCallsMade :
        /\ recLevel[r].level < recLevel[r].floor
        /\ recLevel[r].level >= logLevel[1]
        /\ Len(logLevel) = 1
        /\ levelBuf[Owner] # <<>>
        /\ ~EnqueueTried(r)

\* C16: sync() is idempotent: a sync() call that follows another one with no
\* log() call in between finds nothing to do; it writes no record, so sink,
\* ring and current_size are as the first call left them.
C16_SecondSyncWritesNothing ==
    stage[Owner] \in {"synced", "waited"} =>
        at[Owner] \notin {"p_lock", "p_write", "p_newline"}

\* the record-text bytes among written[from + 1 .. to]
RECURSIVE TextBytes(_, _)
TextBytes(from, to) ==
    IF to <= from THEN 0
    ELSE (IF written[to] = Newline THEN 0 ELSE recSize[written[to]])
         + TextBytes(from, to - 1)

\* the stretches of the output between two consecutive rotations: stretch 0
\* starts at the construction, the last one is still open
Stretches == 0..Len(rotations)
StretchStart(k) == IF k = 0 THEN 0 ELSE rotations[k]
StretchEnd(k) == IF k = Len(rotations) THEN Len(written) ELSE rotations[k + 1]

\* C17 as stated: with max file size M, between any two consecutive
\* rotations (and between construction and the first rotation) at most M
\* bytes of record text are written to the sink, for every sequence of
\* record sizes.
C17_AsStated ==
    \A k \in Stretches : TextBytes(StretchStart(k), StretchEnd(k)) <= MaxFileSize

\* C17: between any two consecutive rotations (and between construction and
\* the first rotation) at most M bytes of record text are written to the
\* sink, unless the only record written there is one longer than M.
C17_BytesBetweenRotations ==
    \A k \in Stretches :
        \/ TextBytes(StretchStart(k), StretchEnd(k)) <= MaxFileSize
        \/ StretchEnd(k) - StretchStart(k) <= 2

\* two records that fill the file exactly were written, one rotation apart
C17_Witness ==
    /\ Len(rotations) = 1
    /\ Len(written) = 4
    /\ TextBytes(StretchStart(0), StretchEnd(0)) = MaxFileSize
    /\ TextBytes(StretchStart(1), StretchEnd(1)) = MaxFileSize

\* C18: when a record of size s is processed with current_size + s >
\* MaxFileSize, the engine rotates exactly once before the write, and
\* current_size is s after the record; otherwise it does not rotate and
\* current_size grows by s.  Either way the whole record and then a newline
\* are written, also when the record is longer than MaxFileSize; nothing
\* else changes current_size, and whenever no record is being written the
\* output is whole lines, one per record processed.
C18_RotateThenWrite ==
    /\ [](fileMutex = NoThread => Len(written) = 2 * Len(WrittenRecords))
    /\ [][/\ \A t \in {Owner, DrainThread} :
             /\ (at[t] = "p_write" /\ at'[t] # "p_write") =>
                   /\ written' = Append(written, Processing(t))
                   /\ IF currentSize + recSize[Processing(t)] > MaxFileSize
                      THEN rotations' = Append(rotations, Len(written)) /\ currentSize' = 0
                      ELSE rotations' = rotations /\ currentSize' = currentSize
             /\ (at[t] = "p_newline" /\ at'[t] # "p_newline") =>
                   /\ written' = Append(written, Newline)
                   /\ rotations' = rotations
                   /\ currentSize' = currentSize + recSize[Processing(t)]
          /\ (\A t \in {Owner, DrainThread} :
                  at[t] \in {"p_write", "p_newline"} => at'[t] = at[t]) =>
                UNCHANGED <<written, rotations, currentSize>>]_vars

\* a record longer than MaxFileSize was written after another one: the
\* engine rotated before it and current_size is its size
C18_Witness ==
    /\ fileMutex = NoThread
    /\ Len(WrittenRecords) = 2
    /\ recSize[WrittenRecords[2]] > MaxFileSize
    /\ rotations = <<2>>
    /\ currentSize = recSize[WrittenRecords[2]]

\* C19: after a rotation every line written to the file before the rotation
\* is still in the file.
C19_RotationKeepsContent ==
    \A k \in 1..Len(rotations) :
        \A i \in 1..rotations[k] : written[i] # Newline => written[i] \in InFile

\* C20: when the ring is full (head - tail >= capacity - 1 at the load of
\* tail in the enqueue of a log() call), log() drops the record: the call
\* returns at that step, without waiting and with nothing kept of the
\* record, does not wake the logging thread, and leaves head, tail and the
\* slots as they are, as it leaves the records won and written so far.
C20_FullRingDrops ==
    [][\A t \in AppThreads :
          (/\ at[t] = "l_enq"
           /\ pc[t] = "e_tail"
           /\ lhead[t] >= tail
           /\ lhead[t] - tail >= capacity - 1
           /\ pc'[t] # pc[t])
          => /\ at'[t] = "rest"
             /\ pc'[t] = "idle"
             /\ entry'[t] = NoRecord
             /\ entry[t] \notin logOf'[t]
             /\ at'[DrainThread] = at[DrainThread]
             /\ UNCHANGED <<qvars, hvars, written, batch>>]_vars

\* the second log() call found the ring of two slots full with the first
\* record, which no consumer had taken, and returned without its record
C20_Witness ==
    /\ capacity = 2
    /\ head - tail = capacity - 1
    /\ deqWon = <<>>
    /\ Len(recSize) = 2
    /\ Enqueued = {1}
    /\ \A t \in AppThreads : at[t] = "rest" /\ entry[t] = NoRecord

\* the records of the log() calls that returned without enqueuing
Dropped ==
    {r \in 1..Len(recSize) : r \notin Enqueued /\ \A t \in AppThreads : entry[t] # r}

\* C21: if the number of records enqueued and not yet dequeued always stays
\* below capacity - 1, no log() call drops its record.  Fewer than
\* capacity - 1 records were enqueued at all, so the backlog has always been
\* below capacity - 1; every log() call passed the level filter.
C21_NoDropBelowCapacity ==
    Len(enqWon) < capacity - 1 => Dropped = {}

(***************************************************************************)
(* SpecSan: Logger::processLogEntry on one rendered line, byte by byte.    *)
(***************************************************************************)
\* the bytes a rendered line is made of here: '\n', 0x1f, ' ', 'a', '~',
\* DEL and 0xc8
Bytes == {10, 31, 32, 97, 126, 127, 200}

Lines == UNION {[1..n -> Bytes] : n \in 0..MaxLineLen}

\* a variant that takes the control characters below ' ' only
IsControl(c) == c < 32

\* std::isprint(c) == 0 for an unsigned char c, in the "C" locale
NonPrintable(c) == ~(c >= 32 /\ c <= 126)

\* std::remove_if(buffer.begin(), buffer.end(), ...): every element to keep
\* is moved to *result++; returns the buffer and the new logical end
RECURSIVE RemoveIf(_, _, _)
RemoveIf(buf, first, result) ==
    IF first > Len(buf) THEN <<buf, result>>
    ELSE IF NonPrintable(buf[first]) THEN RemoveIf(buf, first + 1, result)
    ELSE RemoveIf([buf EXCEPT ![result] = buf[first]], first + 1, result + 1)

\* buffer.resize(it - buffer.begin())
sanitizeString(buf) ==
    LET it == RemoveIf(buf, 1, 1)
    IN  SubSeq(it[1], 1, it[2] - 1)

InitSan ==
    /\ NewQueue(2)
    /\ ThreadsIdle
    /\ NoHistory
    /\ consumed = <<>>
    /\ pre = NoCall
    /\ NoCtorRun
    /\ NoFileSinks
    /\ NoRegistry
    /\ NoLogger
    /\ rendered \in Lines
    /\ buffer = rendered
    /\ lineOut = <<>>
    /\ sanAt = "rendered"

\* sanitizeString(log_entry_buffer)
Sanitize ==
    /\ sanAt = "rendered"
    /\ buffer' = sanitizeString(buffer)
    /\ sanAt' = "sanitized"
    /\ UNCHANGED <<qvars, tvars, hvars, callervars, cvars, bvars, rvars, rendered, lineOut>>

\* _backend->write(log_entry_buffer.data(), log_entry_buffer.size())
BackendWrite ==
    /\ sanAt = "sanitized"
    /\ lineOut' = lineOut \o buffer
    /\ sanAt' = "written"
    /\ UNCHANGED <<qvars, tvars, hvars, callervars, cvars, bvars, rvars, rendered, buffer>>

\* _backend->writeNewline()
BackendWriteNewline ==
    /\ sanAt = "written"
    /\ lineOut' = Append(lineOut, 10)
    /\ sanAt' = "done"
    /\ UNCHANGED <<qvars, tvars, hvars, callervars, cvars, bvars, rvars, rendered, buffer>>

NextSan == Sanitize \/ BackendWrite \/ BackendWriteNewline

SpecSan == InitSan /\ [][NextSan]_vars

\* C22: a line the engine has written ends with a newline byte, which is
\* its only one, and has no byte outside ' '..'~' before it: what precedes
\* the newline is the rendered line without its non-printable bytes, the
\* printable ones all kept, in their order.
C22_SanitizedLine ==
    sanAt = "done" =>
        /\ lineOut # <<>>
        /\ lineOut[Len(lineOut)] = 10
        /\ \A i \in 1..(Len(lineOut) - 1) : lineOut[i] \in 32..126
        /\ SubSeq(lineOut, 1, Len(lineOut) - 1) = SelectSeq(rendered, LAMBDA c : c \in 32..126)

\* "a\x1f " was rendered and "a \n" written
C22_Witness ==
    /\ sanAt = "done"
    /\ rendered = <<97, 31, 32>>
    /\ lineOut = <<97, 32, 10>>

(***************************************************************************)
(* SpecFault: the Logger of logger.tpp from its construction on, with the  *)
(* faults of its environment: the log file may fail to open and            *)
(* fmt::format may fail on the arguments of a log call.                    *)
(***************************************************************************)
InitFault ==
    /\ LoggerMembers
    /\ currentSize = 0
    /\ at = [t \in LogThreads |-> IF t = DrainThread THEN "unborn" ELSE "outside"]
    /\ benchmarkMode = FALSE
    /\ legacyLogger = FALSE
    /\ openFailed \in BOOLEAN
    /\ logLevel = <<>>
    /\ backend = <<>>

\* Logger::Logger: _log_level(logLevel), the FileLogBackend, whose
\* constructor opens the file and looks at no result, and the logging thread
LoggerCtor ==
    /\ at[DrainThread] = "unborn"
    /\ logLevel' = <<DEBUG_LVL>>
    /\ backend' = <<"file">>
    /\ at' = [t \in LogThreads |-> IF t = DrainThread THEN "d_while" ELSE "rest"]
    /\ UNCHANGED <<qvars, tvars, hvars, res, consumed, pre, cvars, bvars, svars, rvars, stage, entry,
                   processed, batch, stopLogging, fileMutex, currentSize, written, rotations,
                   flushedLen, recSize, recLevel, benchmarkMode, legacyLogger, openFailed, raised,
                   levelBuf, logOf, syncPre, drained>>

\* Logger::log when fmt::format(fmt::runtime(format), args...) throws
\* fmt::format_error: nothing catches it, the call ends with the exception
LogFormatError(t, lvl) ==
    /\ AtRest(t)
    /\ LevelPasses(lvl, LevelRead(t))
    /\ raised' = raised \cup {t}
    /\ UNCHANGED <<qvars, tvars, hvars, res, consumed, pre, cvars, bvars, svars, rvars, at, stage, entry,
                   processed, batch, stopLogging, fileMutex, currentSize, written, rotations,
                   flushedLen, recSize, recLevel, benchmarkMode, legacyLogger, openFailed, backend,
                   logLevel, levelBuf, logOf, syncPre, drained>>

NextFault ==
    \/ LoggerCtor
    \/ LogFormatError(Owner, LevelRead(Owner))
    \/ NextOwner

SpecFault == InitFault /\ [][NextFault]_vars

\* C23: when the formatter fails on the template and arguments of a log()
\* call, the call does not fail visibly: no exception leaves log(), which
\* enqueues a "[FORMAT ERROR: ...]" record instead and returns.
C23_FormatErrorIsLogged ==
    raised = {}

\* C24: if the sink cannot be opened during construction, construction
\* fails: no Logger comes to run and no logging thread is spawned.
C24_OpenFailureFailsConstruction ==
    openFailed => at[DrainThread] = "unborn"

(***************************************************************************)
(* SpecReg: the registry of file Loggers, getFileLogger and                *)
(* resetFileLogger (getGlobalLogger and resetGlobalLogger are the same     *)
(* code).  A name is a sequence of path elements; an engine is its number  *)
(* in the order of construction.                                           *)
(***************************************************************************)
RegThreads == 1..NumRegThreads

\* getLogFileName(), which nothing sets
LogFileName == <<"global_logfile.log">>

\* the directories setLogFilePath is called with; the first is the default
\* of getLogFilePath()
DefaultLogFilePath == <<"./">>
FilePaths == {DefaultLogFilePath, <<"d/">>}

\* what a read of logFilePath gives while another thread is assigning it
\* (setLogFilePath takes no lock): neither the old nor the new string
TornPath == <<"?">>

\* the filename arguments: the default one, the default file by its name and
\* another file
FileNames == {<<>>, <<"global_logfile.log">>, <<"custom_logfile.log">>}

\* getLogFilePath() as thread t can read it: the string, or, while another
\* thread is inside its assignment, the string before, the string after or
\* something else
PathsRead(t) ==
    {logFilePath}
        \cup UNION {{regName[u], TornPath} : u \in {v \in RegThreads \ {t} : regAt[v] = "set"}}

\* getLogFilePath() + (filename.empty() ? getLogFileName() : filename)
FullPath(path, filename) == path \o (IF filename = <<>> THEN LogFileName ELSE filename)

NoEngine == 0

\* instances.erase(fullPath)
Erase(map, fullPath) == [p \in DOMAIN map \ {fullPath} |-> map[p]]

InitReg ==
    /\ NewQueue(2)
    /\ ThreadsIdle
    /\ NoHistory
    /\ consumed = <<>>
    /\ pre = NoCall
    /\ NoCtorRun
    /\ NoSanitizeRun
    /\ NoFileSinks
    /\ NoLogger
    /\ instances = [p \in {} |-> NoEngine]
    /\ resetInstances = [p \in {} |-> NoEngine]
    /\ mtx = NoThread
    /\ regAt = [t \in RegThreads |-> "idle"]
    /\ regName = [t \in RegThreads |-> <<>>]
    /\ regRet = [t \in RegThreads |-> [op |-> "none", path |-> <<>>, engine |-> NoEngine]]
    /\ engines = <<>>
    /\ logFilePath = DefaultLogFilePath
    /\ regPath = [t \in RegThreads |-> <<>>]

\* a variant without the lock
MtxIgnored == TRUE

\* std::lock_guard<std::mutex> lock(mtx) can take the mutex
MtxFree == mtx = NoThread

\* setLogFilePath(path): the assignment to the static string begins.  The
\* program changes the directory once, as benchmark/logger_benchmark.cpp does.
SetLogFilePath(t, path) ==
    /\ regAt[t] = "idle"
    /\ logFilePath = DefaultLogFilePath
    /\ path # DefaultLogFilePath
    /\ \A u \in RegThreads : regAt[u] # "set"
    /\ regName' = [regName EXCEPT ![t] = path]
    /\ regAt' = [regAt EXCEPT ![t] = "set"]
    /\ UNCHANGED <<qvars, tvars, hvars, callervars, cvars, bvars, svars, instances, resetInstances,
                   mtx, regRet, engines, logFilePath, regPath>>

\* the assignment is done and setLogFilePath returns
SetDone(t) ==
    /\ regAt[t] = "set"
    /\ logFilePath' = regName[t]
    /\ regName' = [regName EXCEPT ![t] = <<>>]
    /\ regAt' = [regAt EXCEPT ![t] = "idle"]
    /\ UNCHANGED <<qvars, tvars, hvars, callervars, cvars, bvars, svars, instances, resetInstances,
                   mtx, regRet, engines, regPath>>

\* getFileLogger(filename): the lock is taken
GetLock(t, filename) ==
    /\ regAt[t] = "idle"
    /\ MtxFree
    /\ mtx' = t
    /\ regName' = [regName EXCEPT ![t] = filename]
    /\ regAt' = [regAt EXCEPT ![t] = "find"]
    /\ UNCHANGED <<qvars, tvars, hvars, callervars, cvars, bvars, svars, instances, resetInstances,
                   regRet, engines, logFilePath, regPath>>

\* std::string fullPath = getLogFilePath() + ...;
\* if (instances.find(fullPath) == instances.end())
GetFind(t) ==
    /\ regAt[t] = "find"
    /\ \E path \in PathsRead(t) :
          /\ regPath' = [regPath EXCEPT ![t] = FullPath(path, regName[t])]
          /\ regAt' = [regAt EXCEPT ![t] = IF FullPath(path, regName[t]) \in DOMAIN instances
                                             THEN "return" ELSE "make"]
    /\ UNCHANGED <<qvars, tvars, hvars, callervars, cvars, bvars, svars, instances, resetInstances,
                   mtx, regName, regRet, engines, logFilePath>>

\* instances[fullPath] = std::make_shared<Logger<...>>(fullPath): a new
\* Logger, with its sink and its logging thread
GetMake(t) ==
    /\ regAt[t] = "make"
    /\ engines' = Append(engines, regPath[t])
    /\ instances' = [p \in DOMAIN instances \cup {regPath[t]} |->
                        IF p = regPath[t] THEN Len(engines) + 1 ELSE instances[p]]
    /\ regAt' = [regAt EXCEPT ![t] = "return"]
    /\ UNCHANGED <<qvars, tvars, hvars, callervars, cvars, bvars, svars, resetInstances, mtx,
                   regName, regRet, logFilePath, regPath>>

\* return instances[fullPath]; the lock is released, and the argument and
\* the local string are gone
GetReturn(t) ==
    /\ regAt[t] = "return"
    /\ regRet' = [regRet EXCEPT ![t] = [op |-> "get", path |-> regPath[t],
                                         engine |-> instances[regPath[t]]]]
    /\ mtx' = IF mtx = t THEN NoThread ELSE mtx
    /\ regAt' = [regAt EXCEPT ![t] = "idle"]
    /\ regName' = [regName EXCEPT ![t] = <<>>]
    /\ regPath' = [regPath EXCEPT ![t] = <<>>]
    /\ UNCHANGED <<qvars, tvars, hvars, callervars, cvars, bvars, svars, instances, resetInstances,
                   engines, logFilePath>>

\* resetFileLogger(filename), under its own static mutex: erases fullPath
\* from its own static map, a map that `new` allocated on its first call.
\* regRet notes the engine that getFileLogger's map held for the path then.
ResetFileLogger(t, filename) ==
    /\ regAt[t] = "idle"
    /\ \E path \in PathsRead(t) :
          /\ resetInstances' = Erase(resetInstances, FullPath(path, filename))
          /\ regRet' = [regRet EXCEPT ![t] =
                          [op |-> "reset", path |-> FullPath(path, filename),
                           engine |-> IF FullPath(path, filename) \in DOMAIN instances
                                      THEN instances[FullPath(path, filename)] ELSE NoEngine]]
    /\ UNCHANGED <<qvars, tvars, hvars, callervars, cvars, bvars, svars, instances, mtx, regAt,
                   regName, engines, logFilePath, regPath>>

\* the first thread is the one that configures the registry
NextReg ==
    \/ \E path \in FilePaths : SetLogFilePath(1, path)
    \/ SetDone(1)
    \/ \E t \in RegThreads :
        \/ \E filename \in FileNames : GetLock(t, filename) \/ ResetFileLogger(t, filename)
        \/ GetFind(t)
        \/ GetMake(t)
        \/ GetReturn(t)

SpecReg == InitReg /\ [][NextReg]_vars

\* C25: whatever the threads that call the lookup concurrently, at most one
\* engine is ever created for a full path, every lookup returns the engine
\* created for the full path of its name, so that lookups of names with the
\* same full path return the same engine and lookups of different full
\* paths different engines.
C25_OneEnginePerPath ==
    /\ \A i, j \in 1..Len(engines) : engines[i] = engines[j] => i = j
    /\ \A t \in RegThreads :
          regRet[t].op = "get" =>
              /\ regRet[t].engine \in 1..Len(engines)
              /\ engines[regRet[t].engine] = regRet[t].path
    /\ \A t, u \in RegThreads :
          (regRet[t].op = "get" /\ regRet[u].op = "get") =>
              (regRet[t].engine = regRet[u].engine <=> regRet[t].path = regRet[u].path)

\* after the directory was changed, two threads looked the default file up
\* and got the same engine, the second of the two engines created
C25_Witness ==
    /\ Len(engines) = 2
    /\ logFilePath = <<"d/">>
    /\ regRet[1].op = "get" /\ regRet[2].op = "get"
    /\ regRet[1].path = FullPath(<<"d/">>, <<>>) /\ regRet[2].path = regRet[1].path
    /\ regAt[1] = "idle" /\ regAt[2] = "idle"
    /\ regRet[1].engine = 2 /\ regRet[2].engine = 2

\* C26: after resetFileLogger(f) has returned, the registry no longer holds
\* the engine it held for the path of f, so that the next lookup of f
\* creates a new engine.
C26_ResetForgetsEngine ==
    \A t \in RegThreads :
        (regRet[t].op = "reset" /\ regRet[t].engine # NoEngine) =>
            ~(/\ regRet[t].path \in DOMAIN instances
              /\ instances[regRet[t].path] = regRet[t].engine)

\* a thread is inside a write, a newline, a rotation or a flush of the sink
InSink(t) == at[t] \in {"p_write", "p_newline"}

\* C27: destruction follows a fixed order.  _stop_logging changes only once,
\* from false to true, by the destructor after its sync() has returned; the
\* broadcast follows the store, the join the broadcast, and the sink is
\* closed (the Logger is destroyed) only when the logging thread has
\* returned and been joined.  Once the sink is closed nothing is written or
\* flushed to it and no thread is inside a sink operation.
C27_DestructionOrder ==
    /\ [](stage[Owner] = "destroyed" =>
             /\ stopLogging
             /\ at[DrainThread] = "d_exit"
             /\ \A t \in LogThreads : ~InSink(t) /\ at[t] # "s_flush")
    /\ [][/\ stopLogging' # stopLogging =>
                /\ ~stopLogging /\ stopLogging'
                /\ stage[Owner] = "destroying"
                /\ at[Owner] = "x_stop" /\ at'[Owner] = "x_notify"
          /\ (at'[Owner] # at[Owner] /\ at'[Owner] = "x_stop") =>
                stage[Owner] = "destroying" /\ at[Owner] = "s_flush" /\ ~stopLogging
          /\ (at'[Owner] # at[Owner] /\ at'[Owner] = "x_join") =>
                at[Owner] = "x_notify" /\ stopLogging
          /\ stage'[Owner] # stage[Owner] /\ stage'[Owner] = "destroyed" =>
                at[Owner] = "x_join" /\ at[DrainThread] = "d_exit" /\ stopLogging
          /\ stage[Owner] = "destroyed" =>
                UNCHANGED <<written, flushedLen, currentSize, rotations, stopLogging>>]_vars

\* the destructor has returned after the logging thread wrote a line during
\* the destruction
C27_Witness ==
    /\ stage[Owner] = "destroyed"
    /\ stopLogging
    /\ WrittenRecords # <<>>
    /\ WrittenRecords[Len(WrittenRecords)] \in drained
    /\ syncPre[Owner] # {}

\* C28: the sink is single-writer.  At most one thread is inside a write, a
\* newline or a rotation, and it holds _file_mutex; _current_size and what
\* the sink was given change only by a step of the thread that holds
\* _file_mutex; a flush is done by that thread or by a sync() caller that
\* finds the mutex free and holds it for the flush.  (The stream is closed
\* by the destructor after the join, when no thread is left to use it.)
C28_SingleWriter ==
    /\ [](/\ \A t, u \in LogThreads : (InSink(t) /\ InSink(u)) => t = u
          /\ \A t \in LogThreads : InSink(t) <=> fileMutex = t)
    /\ [][/\ (currentSize' # currentSize \/ written' # written \/ rotations' # rotations) =>
                \E t \in LogThreads :
                    /\ fileMutex = t /\ InSink(t) /\ at'[t] # at[t]
                    /\ \A u \in LogThreads \ {t} : at'[u] = at[u]
          /\ flushedLen' # flushedLen =>
                \/ \E t \in LogThreads : fileMutex = t /\ InSink(t) /\ at'[t] # at[t]
                \/ \E t \in AppThreads :
                       /\ at[t] = "s_flush" /\ at'[t] # at[t]
                       /\ fileMutex = NoThread
                       /\ \A u \in LogThreads : ~InSink(u)
                \/ /\ stage'[Owner] = "destroyed" /\ stage[Owner] = "destroying"
                   /\ \A u \in LogThreads : ~InSink(u)]_vars

\* the Owner's sync() is inside a write while the logging thread waits for
\* _file_mutex with a record of its own
C28_Witness ==
    /\ at[Owner] = "p_write"
    /\ fileMutex = Owner
    /\ at[DrainThread] = "p_lock"

\* an application thread is inside sync(): in its dequeue loop, in
\* processLogEntry or at the flush
InSync(t) == at[t] \in {"s_deq", "p_lock", "p_write", "p_newline", "s_flush"}

\* C29: sync() does not stop or replace the logging thread, and the two are
\* correct concurrent consumers.  No step of a sync() call changes
\* _stop_logging or moves the logging thread; every consumer ticket is won
\* once and is a ticket a producer won; every record is returned by one
\* dequeue only, so what a sync() call processes the logging thread has not
\* obtained; no record is written twice; and when the Logger has been
\* destroyed and every enqueued record was logged before the destruction
\* began, every one of them has been written, once.
C29_ConcurrentConsumers ==
    /\ [](/\ \A i, j \in 1..Len(deqWon) : deqWon[i] = deqWon[j] => i = j
          /\ \A i \in 1..Len(deqWon) : \E k \in 1..Len(enqWon) : enqWon[k][1] = deqWon[i]
          /\ \A e \in BagToSet(deqRet) :
                /\ CopiesIn(e, deqRet) = 1
                /\ \E k \in 1..Len(enqWon) : enqWon[k] = e
          /\ \A t \in AppThreads :
                at[t] \in {"p_lock", "p_write", "p_newline"} =>
                    /\ out[t] \notin drained
                    /\ \A i \in 1..Len(batch) : batch[i] # out[t]
          /\ \A i, j \in 1..Len(WrittenRecords) :
                WrittenRecords[i] = WrittenRecords[j] => i = j
          /\ (Destroyed /\ Enqueued \subseteq syncPre[Owner]) =>
                \A r \in Enqueued : \E i \in 1..Len(WrittenRecords) : WrittenRecords[i] = r)
    /\ [][\A t \in AppThreads :
            (/\ InSync(t)
             /\ stage[t] # "destroying"
             /\ at'[t] # at[t] \/ pc'[t] # pc[t])
            => /\ stopLogging' = stopLogging
               /\ at'[DrainThread] = at[DrainThread]
               /\ pc'[DrainThread] = pc[DrainThread]
               /\ batch' = batch]_vars

\* two records were logged before the destructor ran; the logging thread and
\* a sync() call dequeued one each, the sync() call's being written first
C29_Witness ==
    /\ Destroyed
    /\ syncPre[Owner] = {1, 2}
    /\ Enqueued = {1, 2}
    /\ Len(WrittenRecords) = 2
    /\ WrittenRecords[1] \notin drained
    /\ WrittenRecords[2] \in drained

\* the producer tickets whose enqueue has stored the slot's turn and returned
\* true, and the consumer tickets whose dequeue has done so
PublishedTickets ==
    {enqWon[k][1] : k \in 1..Len(enqWon)}
        \ {lhead[t] : t \in {u \in Threads : pc[u] \in {"e_store", "e_pub"}}}
ConsumedTickets ==
    {deqWon[k] : k \in 1..Len(deqWon)}
        \ {ltail[t] : t \in {u \in Threads : pc[u] \in {"d_move", "d_pub"}}}

\* C30: the slot turn protocol.  A step changes the turn of at most one slot
\* and raises it by exactly 1.  The step to an odd turn is the publishing
\* store of the producer that won ticket t, which finds slots[t mod C].turn
\* at 2*(t div C) and leaves it at 2*(t div C) + 1; the step to an even turn
\* is the releasing store of the consumer that won ticket t, which finds it
\* at 2*(t div C) + 1 and leaves it at 2*(t div C + 1).  A slot's turn is odd
\* exactly while a published ticket of that slot has not been consumed, and
\* the slot then holds that ticket's record until the consumer moves it out.
C30_TurnProtocol ==
    /\ [](\A i \in 0..(capacity - 1) :
            /\ slots[i].turn % 2 = 1 <=>
                    \E k \in PublishedTickets \ ConsumedTickets : k % capacity = i
            /\ slots[i].turn % 2 = 1 =>
                    \E k \in PublishedTickets \ ConsumedTickets :
                        /\ k % capacity = i
                        /\ slots[i].turn = 2 * (k \div capacity) + 1
                        /\ \/ \E n \in 1..Len(enqWon) : enqWon[n] = <<k, slots[i].val>>
                           \/ \E t \in Threads : pc[t] = "d_pub" /\ ltail[t] = k)
    /\ [][\A i \in 0..(capacity - 1) :
            slots'[i].turn # slots[i].turn =>
                /\ slots'[i].turn = slots[i].turn + 1
                /\ \A j \in 0..(capacity - 1) : j # i => slots'[j].turn = slots[j].turn
                /\ slots[i].turn % 2 = 0 =>
                      \E t \in Threads :
                          /\ pc[t] = "e_pub"
                          /\ \E n \in 1..Len(enqWon) : enqWon[n][1] = lhead[t]
                          /\ lhead[t] % capacity = i
                          /\ slots[i].turn = 2 * (lhead[t] \div capacity)
                          /\ pc'[t] # "e_pub"
                /\ slots[i].turn % 2 = 1 =>
                      \E t \in Threads :
                          /\ pc[t] = "d_pub"
                          /\ \E n \in 1..Len(deqWon) : deqWon[n] = ltail[t]
                          /\ ltail[t] % capacity = i
                          /\ slots[i].turn = 2 * (ltail[t] \div capacity) + 1
                          /\ slots'[i].turn = 2 * (ltail[t] \div capacity + 1)
                          /\ pc'[t] # "d_pub"]_vars

\* a slot in its second lap: it was published, released, and published again
C30_Witness ==
    \E i \in 0..(capacity - 1) :
        /\ slots[i].turn = 3
        /\ \E k \in PublishedTickets \ ConsumedTickets : k = capacity + i

\* the threads that may touch the storage of slot i: those that won a ticket
\* of the slot and have not stored its turn yet
SlotHolders(i) ==
    {t \in Threads : pc[t] \in {"e_store", "e_pub"} /\ lhead[t] % capacity = i}
        \union {t \in Threads : pc[t] \in {"d_move", "d_pub"} /\ ltail[t] % capacity = i}

\* C31: a slot's storage is accessed by at most one thread at any instant.
\* In every state at most one thread holds a slot between winning its ticket
\* and storing the turn.  A producer constructs only into storage that holds
\* no record, at the even turn of its lap, so no record is overwritten before
\* it is consumed; a consumer moves out, at the odd turn of its lap, exactly
\* the record that the producer of its ticket constructed, so none is read
\* before it is fully constructed.
C31_SlotExclusive ==
    /\ [](\A i \in 0..(capacity - 1) : Cardinality(SlotHolders(i)) <= 1)
    /\ [][\A t \in Threads :
            /\ (pc[t] = "e_store" /\ pc'[t] = "e_pub") =>
                  /\ slots[lhead[t] % capacity].val = NoItem
                  /\ slots[lhead[t] % capacity].turn = 2 * (lhead[t] \div capacity)
                  /\ \A u \in Threads \ {t} :
                        pc[u] \in {"d_move", "d_pub"} => ltail[u] % capacity # lhead[t] % capacity
            /\ (pc[t] = "d_move" /\ pc'[t] = "d_pub") =>
                  /\ slots[ltail[t] % capacity].turn = 2 * (ltail[t] \div capacity) + 1
                  /\ \E n \in 1..Len(enqWon) : enqWon[n] = <<ltail[t], out'[t]>>
                  /\ out'[t] # NoItem
                  /\ \A u \in Threads \ {t} :
                        pc[u] \in {"e_store", "e_pub"} => lhead[u] % capacity # ltail[t] % capacity]_vars

\* a producer has constructed a record in a slot's second lap, after the
\* consumer of the first lap moved the old record out and released the slot
C31_Witness ==
    \E t \in Threads :
        /\ pc[t] = "e_pub"
        /\ lhead[t] >= capacity
        /\ slots[lhead[t] % capacity].val = arg[t]
        /\ \E n \in 1..Len(deqWon) : deqWon[n] = lhead[t] - capacity

(***************************************************************************)
(* SpecFlow: the workload of Spec under fair scheduling, with callers that *)
(* retry as producer_thread and consumer_thread do: a thread inside a call *)
(* keeps running, enqueue calls and dequeue calls keep being made, and     *)
(* compare_exchange_weak does not fail for ever on a value that matches.   *)
(***************************************************************************)
InCallStep(t) ==
    \/ EnqStep(t, "discard")
    \/ EnqCasLose(t)
    \/ DeqStep(t, "discard")
    \/ DeqCasLose(t)

SpecFlow ==
    /\ Init
    /\ [][Next]_vars
    /\ \A t \in Threads : WF_vars(InCallStep(t))
    /\ \A t \in Threads : SF_vars(EnqCasWin(t)) /\ SF_vars(DeqCasWin(t))
    /\ SF_vars(\E t \in Threads : CallEnqueue(t))
    /\ SF_vars(\E t \in Threads : CallDequeue(t))

\* C32: ring operations never wait for another thread.  A thread inside
\* enqueue or dequeue can always take its next step; a call goes back to the
\* top of its loop only from a failed compare-exchange, and returns at once
\* when the slot is not in the expected turn.  Under fair scheduling, with
\* enqueue and dequeue calls being retried, the items keep flowing: every
\* ticket the run allows is enqueued and dequeued.
C32_NeverWaits ==
    /\ [](\A t \in Threads : pc[t] # "idle" => ENABLED InCallStep(t))
    /\ [][\A t \in Threads :
            /\ (pc'[t] = "e_head" /\ pc[t] # "e_head") => (pc[t] = "e_cas" /\ head' = head)
            /\ (pc'[t] = "d_tail" /\ pc[t] # "d_tail") => (pc[t] = "d_cas" /\ tail' = tail)
            /\ (/\ pc[t] = "e_turn"
                /\ slots[lhead[t] % capacity].turn # 2 * (lhead[t] \div capacity)
                /\ pc'[t] # pc[t]) => pc'[t] = "idle"
            /\ (/\ pc[t] = "d_turn"
                /\ slots[ltail[t] % capacity].turn # 2 * (ltail[t] \div capacity) + 1
                /\ pc'[t] # pc[t]) => pc'[t] = "idle"]_vars
    /\ <>(/\ Len(enqWon) = MaxTickets
          /\ Len(deqWon) = MaxTickets
          /\ BagCardinality(deqRet) = MaxTickets)

\* every ticket of the run has been enqueued and dequeued, after calls that
\* lost a compare-exchange or found the ring full or empty on the way
C32_Witness ==
    /\ Len(enqWon) = MaxTickets
    /\ BagCardinality(deqRet) = MaxTickets
    /\ tail = MaxTickets
    /\ \A t \in Threads : pc[t] = "idle"

\* C33: a dequeue call returns false only if the queue was empty at some
\* instant of the call.  The dequeue calls of sync() run while the calling
\* thread, the only producer of the run, enqueues nothing: every ticket below
\* head is published, head stands still and tail only grows, so the queue was
\* empty at some instant of the call exactly if head = tail when it returns.
\* Whenever a dequeue call of sync() returns false, head = tail, also while
\* the logging thread is dequeuing.
C33_FalseMeansEmpty ==
    [][(/\ at[Owner] = "s_deq"
        /\ pc[Owner] = "d_turn"
        /\ at'[Owner] = "s_flush")
       => head = tail]_vars

\* C34: with one producer and one consumer the slot-turn check of enqueue
\* never fails.  Whenever the producer, having passed the fullness test,
\* loads the turn of its target slot, the turn is 2*(head div capacity); and
\* an enqueue call that returns false does so at the fullness test, with
\* capacity - 1 items in the queue.
C34_SpscTurnCheckPasses ==
    [][/\ (pc[Producer] = "e_turn" /\ pc'[Producer] # "e_turn") =>
              /\ slots[lhead[Producer] % capacity].turn = 2 * (lhead[Producer] \div capacity)
              /\ pc'[Producer] = "e_cas"
       /\ (pc[Producer] \in {"e_tail", "e_turn"} /\ pc'[Producer] = "idle") =>
              /\ pc[Producer] = "e_tail"
              /\ head - tail = capacity - 1]_vars

\* the producer has passed the turn check for a slot in its second lap while
\* the consumer has taken a ticket and not released its slot yet
C34_Witness ==
    /\ pc[Producer] = "e_cas"
    /\ lhead[Producer] >= capacity
    /\ pc[Consumer] \in {"d_move", "d_pub"}

(***************************************************************************)
(* size(): two relaxed loads, head first, and a subtraction in size_t.     *)
(***************************************************************************)
\* a - n (mod 2^WordBits), for a word a and a small natural number n
RECURSIVE Sub(_, _)
Sub(a, n) == IF n = 0 THEN a ELSE Sub(Dec(a), n - 1)

\* head >= tail ? head - tail : _capacity - (tail - head)
SizeResult(h, t) ==
    IF h >= t THEN FromNat(h - t) ELSE Sub(FromNat(capacity), t - h)

BeginSize(t) ==
    /\ pc[t] = "idle"
    /\ lhead' = [lhead EXCEPT ![t] = head]
    /\ pc' = [pc EXCEPT ![t] = "z_tail"]
    /\ UNCHANGED <<ltail, arg, out>>

CallSize(t) ==
    /\ BeginSize(t)
    /\ UNCHANGED <<qvars, hvars, callervars, cvars, bvars, svars, rvars>>

\* the load of tail; the call returns the size, a size_t
SizeLoadTail(t) ==
    /\ pc[t] = "z_tail"
    /\ res' = [res EXCEPT ![t] = SizeResult(lhead[t], tail)]
    /\ pc' = [pc EXCEPT ![t] = "idle"]
    /\ lhead' = [lhead EXCEPT ![t] = 0]
    /\ UNCHANGED <<ltail, arg, out, qvars, hvars, consumed, pre, lvars, cvars, bvars, svars, rvars>>

\* SpecSize: the threads of Spec also call size()
NextSize ==
    \/ Next
    \/ \E t \in Threads : CallSize(t)
    \/ \E t \in Threads : SizeLoadTail(t)

SpecSize == Init /\ [][NextSize]_vars

\* C35: size() always returns a value between 0 and capacity - 1, also when
\* enqueues and dequeues advance head and tail between its two loads.
C35_SizeInRange ==
    [][\A t \in Threads :
        (pc[t] = "z_tail" /\ pc'[t] = "idle") => Leq(res'[t], FromNat(capacity - 1))]_vars

\* C36: every record that log() successfully enqueues is eventually written
\* to the sink under fair scheduling, with no later log(), sync() or
\* destruction needed to get it there.
C36_EnqueuedIsWritten ==
    \A r \in 1..MaxRecords :
        (r \in Enqueued) ~> (\E i \in 1..Len(WrittenRecords) : WrittenRecords[i] = r)

\* C37: all log() calls of the run are made by the thread that destroys the
\* Logger, so all have returned when the destructor starts.  When the
\* destructor has returned, every enqueued record has been written to the
\* sink exactly once: the ring is empty, no thread holds a record it has not
\* written, the logging thread's batch is empty, and the records written are
\* the records enqueued, each once.
C37_DestructionWritesAll ==
    Destroyed =>
        /\ head = tail
        /\ batch = <<>>
        /\ \A t \in LogThreads : pc[t] = "idle" /\ at[t] \notin {"p_lock", "p_write", "p_newline"}
        /\ \A r \in Enqueued : \E i \in 1..Len(WrittenRecords) : WrittenRecords[i] = r
        /\ \A i, j \in 1..Len(WrittenRecords) : WrittenRecords[i] = WrittenRecords[j] => i = j
        /\ \A i \in 1..Len(WrittenRecords) : WrittenRecords[i] \in Enqueued

\* the destructor's sync() dequeued record 1 and the logging thread record 2,
\* which it wrote first
C37_Witness ==
    /\ Destroyed
    /\ Enqueued = {1, 2}
    /\ drained = {2}
    /\ WrittenRecords = <<2, 1>>
    /\ stage[Owner] = "destroyed"

(***************************************************************************)
(* SpecSink: the Logger of logger.tpp constructed with a sink of the       *)
(* caller, as getConsoleLogger constructs it with a ConsoleLogBackend.     *)
(***************************************************************************)
InitSink ==
    /\ LoggerMembers
    /\ currentSize = 0
    /\ at = [t \in LogThreads |-> IF t = DrainThread THEN "d_while" ELSE "rest"]
    /\ backend = <<"supplied">>
    /\ benchmarkMode \in BOOLEAN
    /\ legacyLogger = FALSE
    /\ openFailed = FALSE
    /\ logLevel = <<DEBUG_LVL>>

SpecSink == InitSink /\ [][NextOwner]_vars

\* C38: a Logger constructed with a sink of the caller keeps it for its whole
\* lifetime: after any sequence of log, sync and rotation steps _backend is
\* still the supplied sink, so every record is written to it.
C38_SuppliedSinkKept ==
    \A i \in 1..Len(backend) : backend[i] = "supplied"

(***************************************************************************)
(* SpecBuf: file sinks that are alive at the same time, each written by    *)
(* the logging thread of its own Logger.  FileLogBackend's constructor     *)
(* gives every sink the same static array, fileBuffer, by pubsetbuf on the *)
(* stream it has just opened.  What setbuf does on an open stream is left  *)
(* to the implementation: it is ignored (every stream keeps a buffer of    *)
(* its own) or it takes effect, depending on the build.  A stream keeps    *)
(* its own put pointers into the array it buffers in.                      *)
(***************************************************************************)
NumSinks == 2          \* file sinks alive at the same time
MaxSinkBytes == 3      \* bytes written to one sink in a run
FileBufferSize == 2    \* sizeof(fileBuffer), in bytes

Sinks == 1..NumSinks

\* buffer 0 is the static fileBuffer; buffer s is the one stream s allocated
StaticBuffer == 0

\* the array sink s buffers in
BufferOf(s) == IF setbufActs THEN StaticBuffer ELSE s

NoByte == 0

InitBuf ==
    /\ NewQueue(2)
    /\ ThreadsIdle
    /\ NoHistory
    /\ consumed = <<>>
    /\ pre = NoCall
    /\ NoCtorRun
    /\ NoSanitizeRun
    /\ NoRegistry
    /\ NoLogger
    /\ setbufActs \in BOOLEAN
    /\ fileBuffer = [b \in {StaticBuffer} \cup Sinks |-> [i \in 1..FileBufferSize |-> NoByte]]
    /\ pending = [s \in Sinks |-> 0]
    /\ delivered = [s \in Sinks |-> <<>>]

\* _ofs.put / _ofs.write of one byte by the thread that writes sink s: the
\* byte, marked with the sink it was written to, goes to the next free place
\* of the sink's buffer
SinkWrite(s) ==
    /\ pending[s] < FileBufferSize
    /\ Len(delivered[s]) + pending[s] < MaxSinkBytes
    /\ fileBuffer' = [fileBuffer EXCEPT ![BufferOf(s)][pending[s] + 1] = s]
    /\ pending' = [pending EXCEPT ![s] = @ + 1]
    /\ UNCHANGED <<qvars, tvars, hvars, callervars, cvars, svars, rvars, setbufActs, delivered>>

\* _ofs.flush(), or the overflow of a full buffer: what the sink's buffer
\* holds up to the sink's put pointer goes to the sink's file
SinkFlush(s) ==
    /\ pending[s] > 0
    /\ delivered' = [delivered EXCEPT ![s] = @ \o SubSeq(fileBuffer[BufferOf(s)], 1, pending[s])]
    /\ pending' = [pending EXCEPT ![s] = 0]
    /\ UNCHANGED <<qvars, tvars, hvars, callervars, cvars, svars, rvars, setbufActs, fileBuffer>>

NextBuf ==
    \/ \E s \in Sinks : SinkWrite(s)
    \/ \E s \in Sinks : SinkFlush(s)

SpecBuf == InitBuf /\ [][NextBuf]_vars

\* C39: two file sinks that are alive at the same time never buffer into the
\* same storage: the bytes delivered to a sink's file are bytes that were
\* written to that sink.
C39_OwnBytesOnly ==
    \A s \in Sinks : \A i \in 1..Len(delivered[s]) : delivered[s][i] = s

(***************************************************************************)
(* The locks of the Logger: _log_mutex, _file_mutex, _empty_mutex          *)
(***************************************************************************)
\* the thread holds _log_mutex: the logging thread from its lock until it
\* blocks in _cv.wait, unlocks for a batch or returns; a caller of
\* logger.hpp's log around enqueue and notify_one
HoldsLogMutex(t) ==
    IF t = DrainThread
    THEN at[t] \notin {"d_while", "d_blocked", "p_lock", "p_write", "p_newline", "d_exit"}
    ELSE legacyLogger /\ at[t] \in {"l_enq", "l_notify"}

\* the thread is at a lock of _file_mutex (processLogEntry, or the flush of
\* sync) and another thread holds the mutex
WaitsFileMutex(t) == at[t] \in {"p_lock", "s_flush"} /\ fileMutex \notin {NoThread, t}

\* the thread is at a lock of _log_mutex and another thread holds it
WaitsLogMutex(t) ==
    IF t = DrainThread
    THEN at[t] = "d_while" /\ \E u \in AppThreads : HoldsLogMutex(u)
    ELSE at[t] = "l_lock" /\ \E u \in LogThreads \ {t} : HoldsLogMutex(u)

\* the step a thread takes next while it holds a mutex
HolderRuns(t) ==
    IF t = DrainThread
    THEN DrainStep \/ ProcessWrite(t) \/ ProcessNewline(t)
    ELSE AppStep(t) \/ ProcessWrite(t) \/ ProcessNewline(t)

\* C40: the locks never deadlock.  No thread holds _log_mutex while it
\* acquires or holds _file_mutex, nor _file_mutex while it acquires
\* _log_mutex (sync takes _empty_mutex last and alone, and no other code
\* takes it); the logging thread has released _log_mutex while it processes
\* a batch, so that a caller of logger.hpp's log can enter then; each mutex
\* has at most one holder, and a thread that holds a mutex is never waiting
\* for one and always has a step it can take.  So in no state are all the
\* threads waiting for a mutex.
C40_NoLockDeadlock ==
    /\ \A t \in {Owner, DrainThread} :
          /\ ~(HoldsLogMutex(t) /\ (at[t] \in {"p_lock", "s_flush"} \/ fileMutex = t))
          /\ (fileMutex = t \/ HoldsLogMutex(t)) =>
                /\ ~WaitsFileMutex(t)
                /\ ~WaitsLogMutex(t)
                /\ ENABLED HolderRuns(t)
    /\ ~(HoldsLogMutex(Owner) /\ HoldsLogMutex(DrainThread))
    /\ (/\ legacyLogger
        /\ at[DrainThread] \in {"p_lock", "p_write", "p_newline"}
        /\ at[Owner] = "l_lock") => ENABLED LogLock(Owner)
    /\ \E t \in {Owner, DrainThread} : ~WaitsFileMutex(t) /\ ~WaitsLogMutex(t)

\* the logging thread, its _log_mutex released, is inside a write with
\* _file_mutex while the Owner's sync() waits for _file_mutex with a record
\* of its own
C40_Witness ==
    /\ legacyLogger
    /\ at[DrainThread] = "p_newline"
    /\ fileMutex = DrainThread
    /\ at[Owner] = "p_lock"
    /\ WaitsFileMutex(Owner)

====
